---- MODULE Spec2Model ----
(***************************************************************************)
(* A model of the Smart Instant Pot vision pipeline.                       *)
(*                                                                         *)
(*   Spec        DigitReader.read_digits from the point where the glyph    *)
(*               contours of the binarized LED crop are known              *)
(*               (digit_reader.py), with DigitReader._detect_digit and     *)
(*               _filled_area computed pixel by pixel.                     *)
(*   SpecDetect  Detector.detect_panel on a constructed Detector           *)
(*               (detector.py): resize, features, 2-nearest matching,      *)
(*               ratio test, homography and warp.                          *)
(*   SpecSettings  Settings attributes on a DictSettingsStore             *)
(*               (services/settings.py).                                   *)
(*   SpecBus     SimpleMessageBus (services/message_bus.py).               *)
(*   SpecRedis   RedisThreadedMessageBus: the calling thread, the redis    *)
(*               connection and the background thread that delivers        *)
(*               (services/message_bus.py).                                *)
(*   SpecResize  image_utils.constrain_size applied to an image and a pair *)
(*               of limits, and once more to what it returned              *)
(*               (image_utils.py).                                         *)
(*                                                                         *)
(* Fractions are kept exact: a parameter such as 0.66 is the percentage    *)
(* 66, and a filled-area ratio is a pair num/den that is compared by cross *)
(* multiplication.  For the image sizes of this model no ratio lies within *)
(* floating-point rounding distance of a threshold without being equal to  *)
(* it, so the exact comparison is the comparison the floats make.          *)
(***************************************************************************)
EXTENDS Integers, Sequences, FiniteSets, TLC

VARIABLES
    one_digit_filled_area, \* DigitReaderParameters.one_digit_filled_area, in percent
    led_contours,          \* number of contours of the opened HSV threshold image
    panel_digits,          \* the thresholded and dilated LED crop: [width, height, lit]
    contours,              \* bounding rectangles of its external contours, as discovered
    digit_contours,        \* read_digits' list of (area, height, bounds)
    pc,                    \* position inside read_digits
    i,                     \* index of the glyph being decoded (1-based)
    digit_value,           \* value of the last _detect_digit call
    decoded_digits,        \* characters decoded so far
    result,                \* what read_digits returned
    attempts,              \* history: every _detect_digit call made, in order
    debug_plot_func,       \* DigitReader: TRUE if a debug_plot function was given
    plotted,               \* history: the calls the debug_plot function received
    panel,                 \* Detector: [img, keypoints] of the reference panel
    img,                   \* detect_panel / constrain_size: the input image
    limits,                \* constrain_size: [max_width, max_height]
    resized,               \* constrain_size: the (image, scaling) returned
    resized_again,         \* constrain_size applied to the image it returned
    desc,                  \* detect_panel: number of features of the input
    matches,               \* detect_panel: the rows knnMatch returned
    good,                  \* detect_panel: the matches that pass the ratio test
    homography,            \* detect_panel: the homography, once estimated
    warped,                \* detect_panel: TRUE once warpPerspective has run
    dpc,                   \* position inside detect_panel
    detected,              \* what detect_panel returned or raised
    store,                 \* DictSettingsStore._settings: key -> bytes
    settings_name,         \* Settings._settings_name
    constructed,           \* TRUE once a Settings was constructed on the store
    assigned,              \* history: key -> the value last assigned, if not deleted
    settings_op,           \* history: the last operation on the settings
    bus,                   \* SimpleMessageBus._bus: channel -> set of callbacks
    callback_calls,        \* history: the calls the callbacks received
    published,             \* number of publish calls made
    bus_op,                \* history: the last operation on the bus
    namespace,             \* RedisThreadedMessageBus._namespace
    callbacks,             \* ._callbacks: None, or channel -> set of callbacks
    callbacks_lock,        \* ._callbacks_lock: free, or who holds it
    thread,                \* ._thread: the worker as the bus refers to it
    pubsub,                \* messages redis sent to ._pubsub, not yet handled
    worker,                \* the background thread: its position and its data
    main,                  \* the calling thread: ready, or inside deinit
    issued,                \* history: the calls that returned to the caller
    redis_calls            \* history: the calls the callbacks received

reader_vars ==
    <<one_digit_filled_area, led_contours, panel_digits, contours,
      digit_contours, pc, i, digit_value, decoded_digits, result, attempts,
      debug_plot_func, plotted>>

resize_vars == <<img, limits, resized, resized_again>>

detect_vars == <<panel, desc, matches, good, homography, warped, dpc, detected>>

settings_vars == <<store, settings_name, constructed, assigned, settings_op>>

bus_vars == <<bus, callback_calls, published, bus_op>>

redis_vars ==
    <<namespace, callbacks, callbacks_lock, thread, pubsub, worker, main, issued,
      redis_calls>>

service_vars == <<settings_vars, bus_vars, redis_vars>>

vars == <<reader_vars, resize_vars, detect_vars, service_vars>>

None == "None"

Min(a, b) == IF a < b THEN a ELSE b

Max(a, b) == IF a > b THEN a ELSE b

Abs(a) == IF a < 0 THEN -a ELSE a

(***************************************************************************)
(* DigitReaderParameters defaults, in percent.                             *)
(***************************************************************************)
colon_retry_crop_percent == 80

segment_filled_area_percent == 50

one_digit_aspect_ratio == 33

one_digit_filled_area_default == 66

\* the literal 0.1 of the aspect test, in percent
OneDigitAspectTolerance == 10

\* the literal 0.6 of the height normalization, in percent
ShortGlyphPercent == 60

\* at most this many glyph contours are kept
MaxDigits == 4

(***************************************************************************)
(* Images.  Every image the reader handles is a rectangular view of        *)
(* panel_digits: [ox, oy] is the view's origin in panel coordinates.       *)
(***************************************************************************)
WholePanel == [ox |-> 0, oy |-> 0,
               width |-> panel_digits.width, height |-> panel_digits.height]

\* One bound of a Python slice a:b over an axis of length n.
SliceBound(a, n) == IF a < 0 THEN Max(a + n, 0) ELSE Min(a, n)

\* image[y0:y1, x0:x1]
Slice(image, y0, y1, x0, x1) ==
    LET lx == SliceBound(x0, image.width)
        hx == SliceBound(x1, image.width)
        ly == SliceBound(y0, image.height)
        hy == SliceBound(y1, image.height)
    IN  [ox |-> image.ox + lx, oy |-> image.oy + ly,
         width |-> Max(hx - lx, 0), height |-> Max(hy - ly, 0)]

\* cv2.countNonZero
CountNonZero(image) ==
    Cardinality({p \in panel_digits.lit :
                    /\ p[1] >= image.ox /\ p[1] < image.ox + image.width
                    /\ p[2] >= image.oy /\ p[2] < image.oy + image.height})

Rect(x0, y0, x1, y1) == [x0 |-> x0, y0 |-> y0, x1 |-> x1, y1 |-> y1]

\* _filled_area(image, rect): the ratio filled/total, or 0 when total is 0
FilledArea(image, rect) ==
    LET total == (rect.x1 - rect.x0) * (rect.y1 - rect.y0)
    IN  IF total = 0
        THEN [num |-> 0, den |-> 1]
        ELSE [num |-> CountNonZero(Slice(image, rect.y0, rect.y1, rect.x0, rect.x1)),
              den |-> total]

\* _filled_area(image): rect defaults to ((0, 0), (width-1, height-1))
FilledAreaWhole(image) ==
    FilledArea(image, Rect(0, 0, image.width - 1, image.height - 1))

\* ratio >= pct/100
AtLeast(ratio, pct) ==
    IF ratio.den > 0 THEN 100 * ratio.num >= pct * ratio.den
                     ELSE 100 * ratio.num <= pct * ratio.den

\* ratio > pct/100
Exceeds(ratio, pct) ==
    IF ratio.den > 0 THEN 100 * ratio.num > pct * ratio.den
                     ELSE 100 * ratio.num < pct * ratio.den

(***************************************************************************)
(* DigitReader._detect_digit                                               *)
(***************************************************************************)
\* abs(aspect - one_digit_aspect_ratio) <= 0.1, aspect = width / height
OneDigitAspect(image) ==
    Abs(100 * image.width - one_digit_aspect_ratio * image.height)
        <= OneDigitAspectTolerance * image.height

\* OneDigitCase with the fill test made strict
OneDigitCaseStrict(image) ==
    /\ OneDigitAspect(image)
    /\ Exceeds(FilledAreaWhole(image), one_digit_filled_area)

\* the '1' special case
OneDigitCase(image) ==
    /\ OneDigitAspect(image)
    /\ AtLeast(FilledAreaWhole(image), one_digit_filled_area)

\* ss = int(width/3), the segment size
SegmentSize(image) == image.width \div 3

\* hss = ss//2
HalfSegmentSize(image) == SegmentSize(image) \div 2

\* vq = int(height/4)
VerticalQuarter(image) == image.height \div 4

\* d = ((x1-ss, y0), (x1, y1)) for the k-th fifth (k = 0..4), x1 = width-1
ColonBand(image, k) ==
    LET fifth == image.height \div 5
        x1    == image.width - 1
    IN  Rect(x1 - SegmentSize(image), k * fifth, x1, (k + 1) * fifth)

\* colon_lit
ColonLit(image) ==
    [k \in 0..4 |-> Exceeds(FilledArea(image, ColonBand(image, k)),
                            segment_filled_area_percent)]

\* ColonPattern without the test of the bottom fifth
ColonPatternLoose(lit) ==
    ~lit[0] /\ lit[1] /\ ~lit[2] /\ lit[3]

\* not lit, lit, not lit, lit, not lit
ColonPattern(lit) ==
    ~lit[0] /\ lit[1] /\ ~lit[2] /\ lit[3] /\ ~lit[4]

ColonDetected(image) == ColonPattern(ColonLit(image))

\* s0..s6.  y1 is no longer height-1 here: the colon loop left it at
\* 5*int(height/5).
SegmentRects(image) ==
    LET ss  == SegmentSize(image)
        hss == HalfSegmentSize(image)
        vq1 == VerticalQuarter(image)
        vq2 == 2 * VerticalQuarter(image)
        vq3 == 3 * VerticalQuarter(image)
        x1  == image.width - 1
        y1  == 5 * (image.height \div 5)
    IN  << Rect(0,       vq1 - hss, ss,      vq1 + hss),
           Rect(ss,      0,         x1 - ss, ss),
           Rect(x1 - ss, vq1 - hss, x1,      vq1 + hss),
           Rect(ss,      vq2 - hss, x1 - ss, vq2 + hss),
           Rect(0,       vq3 - hss, ss,      vq3 + hss),
           Rect(ss,      y1 - ss,   x1 - ss, y1),
           Rect(x1 - ss, vq3 - hss, x1,      vq3 + hss) >>

\* area = (x1-x0)*(y1-y0)
SegmentArea(rect) == (rect.x1 - rect.x0) * (rect.y1 - rect.y0)

\* segment_image = digit_img[y0:y1, x0:x1]
SegmentImage(image, rect) == Slice(image, rect.y0, rect.y1, rect.x0, rect.x1)

\* lit = _filled_area(segment_image) >= segment_filled_area_percent
SegmentLit(image, rect) ==
    AtLeast(FilledAreaWhole(SegmentImage(image, rect)), segment_filled_area_percent)

\* "Bad input" only if all seven sampling rectangles have zero area
ZeroAreaSegmentAll(image) ==
    \A k \in 1..7 : SegmentArea(SegmentRects(image)[k]) = 0

\* some sampling rectangle has zero area ("Bad input")
ZeroAreaSegment(image) ==
    \E k \in 1..7 : SegmentArea(SegmentRects(image)[k]) = 0

\* tuple(segments)
Segments(image) ==
    [k \in 1..7 |-> SegmentLit(image, SegmentRects(image)[k])]

\* _digit_segments
digit_segments ==
    (<<TRUE,  TRUE,  TRUE,  FALSE, TRUE,  TRUE,  TRUE >> :> "0") @@
    (<<FALSE, FALSE, TRUE,  FALSE, FALSE, FALSE, TRUE >> :> "1") @@
    (<<FALSE, TRUE,  TRUE,  TRUE,  TRUE,  TRUE,  FALSE>> :> "2") @@
    (<<FALSE, TRUE,  TRUE,  TRUE,  FALSE, TRUE,  TRUE >> :> "3") @@
    (<<TRUE,  FALSE, TRUE,  TRUE,  FALSE, FALSE, TRUE >> :> "4") @@
    (<<TRUE,  TRUE,  FALSE, TRUE,  FALSE, TRUE,  TRUE >> :> "5") @@
    (<<TRUE,  TRUE,  FALSE, TRUE,  TRUE,  TRUE,  TRUE >> :> "6") @@
    (<<FALSE, TRUE,  TRUE,  FALSE, FALSE, FALSE, TRUE >> :> "7") @@
    (<<TRUE,  TRUE,  TRUE,  TRUE,  TRUE,  TRUE,  TRUE >> :> "8") @@
    (<<TRUE,  TRUE,  TRUE,  TRUE,  FALSE, TRUE,  TRUE >> :> "9") @@
    (<<TRUE,  FALSE, FALSE, FALSE, TRUE,  TRUE,  FALSE>> :> "L") @@
    (<<TRUE,  TRUE,  FALSE, TRUE,  TRUE,  FALSE, FALSE>> :> "F") @@
    (<<FALSE, FALSE, FALSE, TRUE,  TRUE,  FALSE, TRUE >> :> "n")

\* LookupDigit with '8' as the default of the lookup
LookupDigitDefault8(segments) ==
    IF segments \in DOMAIN digit_segments THEN digit_segments[segments] ELSE "8"

\* _digit_segments.get(tuple(segments), None)
LookupDigit(segments) ==
    IF segments \in DOMAIN digit_segments THEN digit_segments[segments] ELSE None

\* which return statement of _detect_digit the image reaches
DetectPath(image) ==
    IF OneDigitCase(image) THEN "one"
    ELSE IF ColonDetected(image) THEN "colon"
    ELSE IF ZeroAreaSegment(image) THEN "zero_area"
    ELSE "lookup"

\* the value _detect_digit returns
DetectDigit(image) ==
    IF OneDigitCase(image) THEN "1"
    ELSE IF ColonDetected(image) THEN None
    ELSE IF ZeroAreaSegment(image) THEN None
    ELSE LookupDigit(Segments(image))

(***************************************************************************)
(* DigitReader._debug_plot.  A call is known by its title; the image it    *)
(* hands over is a view of the panel, which the reader only reads.         *)
(***************************************************************************)
\* lines 117-121: the function is called only if one was given
DebugPlot(log, title) == IF debug_plot_func THEN Append(log, title) ELSE log

RECURSIVE DebugPlotAll(_, _)
DebugPlotAll(log, titles) ==
    IF titles = <<>> THEN log
    ELSE DebugPlotAll(DebugPlot(log, Head(titles)), Tail(titles))

\* lines 202-215: how many segments the loop plots before _detect_digit
\* returns: none if it returned earlier, those before the first of zero
\* area, else all seven
SegmentsSampled(image) ==
    LET zero == {k \in 1..7 : SegmentArea(SegmentRects(image)[k]) = 0}
    IN  IF OneDigitCase(image) \/ ColonDetected(image) THEN 0
        ELSE IF zero = {} THEN 7
        ELSE (CHOOSE k \in zero : \A j \in zero : k <= j) - 1

\* line 214: 'Segment {0} - {1:0.2f}% filled - {2}'
SegmentTitles(image) ==
    [k \in 1..SegmentsSampled(image) |->
        <<"Segment", k - 1,
          FilledAreaWhole(SegmentImage(image, SegmentRects(image)[k])),
          SegmentLit(image, SegmentRects(image)[k])>>]

(***************************************************************************)
(* DigitReader.read_digits: glyph extraction                               *)
(***************************************************************************)
\* (contour_area, h, ((x, y), (x+w, y+h))); src is the discovery index, kept
\* only so that properties can name the contour an entry came from
ContourEntry(c, k) ==
    [area |-> c.w * c.h, height |-> c.h,
     p1 |-> <<c.x, c.y>>, p2 |-> <<c.x + c.w, c.y + c.h>>, src |-> k]

\* list.sort is stable: an index goes behind every index whose key is not
\* larger
InsertStable(order, n, keys) ==
    LET k == Cardinality({j \in 1..Len(order) : keys[order[j]] <= keys[n]})
    IN  SubSeq(order, 1, k) \o <<n>> \o SubSeq(order, k + 1, Len(order))

\* seq.sort(key=...), the keys given element by element
StableSort(seq, keys) ==
    LET f[n \in 0..Len(seq)] ==
            IF n = 0 THEN <<>> ELSE InsertStable(f[n - 1], n, keys)
    IN  [k \in 1..Len(seq) |-> seq[f[Len(seq)][k]]]

\* SortByArea without reverse=True
SortByAreaAscending(seq) == StableSort(seq, [k \in DOMAIN seq |-> seq[k].area])

\* digit_contours.sort(key=lambda x: x[0], reverse=True): descending, and
\* equal areas stay in their order
SortByArea(seq) == StableSort(seq, [k \in DOMAIN seq |-> 0 - seq[k].area])

\* digit_contours = digit_contours[:4] when there are more than 4
PruneDigits(seq) ==
    IF Len(seq) > MaxDigits THEN SubSeq(seq, 1, MaxDigits) ELSE seq

\* SortByX ordering by the top edge instead of the left edge
SortByY(seq) == StableSort(seq, [k \in DOMAIN seq |-> seq[k].p1[2]])

\* digit_contours.sort(key=lambda x: x[2][0][0])
SortByX(seq) == StableSort(seq, [k \in DOMAIN seq |-> seq[k].p1[1]])

RECURSIVE TallestOf(_)
\* tallest = max(tallest, height) over the list, from 0
TallestOf(seq) ==
    IF seq = <<>> THEN 0 ELSE Max(TallestOf(Tail(seq)), Head(seq).height)

\* ExpandShort leaving a contour of exactly 0.6 of the tallest as it is
ExpandShortBelow(dc, tallest) ==
    IF 100 * dc.height < ShortGlyphPercent * tallest
    THEN [dc EXCEPT !.height = tallest,
                    !.p1 = <<dc.p1[1], Max(dc.p2[2] - tallest, 0)>>,
                    !.area = (dc.p2[1] - dc.p1[1]) * tallest]
    ELSE dc

\* if height/tallest <= 0.6: expand the contour up, bottom fixed
ExpandShort(dc, tallest) ==
    IF 100 * dc.height <= ShortGlyphPercent * tallest
    THEN [dc EXCEPT !.height = tallest,
                    !.p1 = <<dc.p1[1], Max(dc.p2[2] - tallest, 0)>>,
                    !.area = (dc.p2[1] - dc.p1[1]) * tallest]
    ELSE dc

\* lines 310-348: the list the decode loop runs over
ExtractGlyphs(cs) ==
    LET entries == [k \in 1..Len(cs) |-> ContourEntry(cs[k], k)]
        kept    == SortByX(PruneDigits(SortByArea(entries)))
        tallest == TallestOf(kept)
    IN  [k \in 1..Len(kept) |-> ExpandShort(kept[k], tallest)]

\* digit_image = panel_digits[p1[1]:p2[1], p1[0]:p2[0]]
DigitImage(dc) == Slice(WholePanel, dc.p1[2], dc.p2[2], dc.p1[1], dc.p2[1])

\* CroppedWidth taken from the right edge instead of the width
CroppedWidthOfRightEdge(dc) == (colon_retry_crop_percent * dc.p2[1]) \div 100

\* cropped_width = int(colon_retry_crop_percent*(p2[0]-p1[0]))
CroppedWidth(dc) == (colon_retry_crop_percent * (dc.p2[1] - dc.p1[1])) \div 100

\* cropped_image = panel_digits[p1[1]:cropped_p2[1], p1[0]:cropped_p2[0]]
CroppedImage(dc) ==
    Slice(WholePanel, dc.p1[2], dc.p2[2], dc.p1[1], dc.p1[1] + CroppedWidth(dc))

(***************************************************************************)
(* Inputs.  The images are painted seven-segment glyphs: each of the seven *)
(* strokes of a glyph of width w is a bar w/3 thick that keeps clear of    *)
(* the other strokes; a colon dot fills one fifth of the rows of the right *)
(* edge (one column more than a stroke); a bar fills the columns left of   *)
(* it.  Strokes are numbered as the segments of _digit_segments, 0..6.     *)
(***************************************************************************)
\* the most contours one panel holds
MaxContours == 5

GlyphPaint(w, h, strokes, dots, bar) ==
    LET t     == w \div 3
        m0    == (h \div 2) - ((t + 1) \div 2)
        fifth == h \div 5
        Mid(x)   == t <= x /\ x < w - t
        Upper(y) == (t \div 2) <= y /\ y < (h \div 2)
        Lower(y) == (h \div 2) <= y /\ y < h - (t \div 2)
    IN  {p \in (0..(w - 1)) \X (0..(h - 1)) :
            \/ p[1] < bar
            \/ 1 \in strokes /\ Mid(p[1]) /\ p[2] < t
            \/ 3 \in strokes /\ Mid(p[1]) /\ m0 <= p[2] /\ p[2] < m0 + t
            \/ 5 \in strokes /\ Mid(p[1]) /\ h - t <= p[2]
            \/ 0 \in strokes /\ p[1] < t /\ Upper(p[2])
            \/ 2 \in strokes /\ p[1] >= w - t /\ Upper(p[2])
            \/ 4 \in strokes /\ p[1] < t /\ Lower(p[2])
            \/ 6 \in strokes /\ p[1] >= w - t /\ Lower(p[2])
            \/ \E j \in dots : /\ p[1] >= w - t - 1
                               /\ j * fifth <= p[2] /\ p[2] < (j + 1) * fifth}

Card(strokes, dots, bar) == [strokes |-> strokes, dots |-> dots, bar |-> bar]

\* sizes <<width, height>> of the single-glyph panels
GlyphSizes ==
    {<<9, 16>>, <<10, 20>>, <<7, 20>>, <<3, 9>>, <<2, 9>>, <<1, 9>>, <<6, 3>>}

\* what is painted on a single-glyph panel of width w: every set of
\* strokes, and every set of colon dots beside every bar
GlyphCards(w) ==
    {Card(s, {}, 0) : s \in SUBSET (0..6)} \cup
    {Card({}, d, b) : d \in SUBSET (0..4), b \in 0..w}

\* values of the one_digit_filled_area setting that are tried
OneDigitFilledAreaValues == {one_digit_filled_area_default, 50}

\* The contours a multi-glyph panel is assembled from: where the contour's
\* bounding rectangle lies and what is painted inside it.
SceneContours ==
    << \* a full bar: decodes as '1'
       [x |-> 0,  y |-> 0,  w |-> 5, h |-> 16, card |-> Card({}, {}, 5)],
       \* top, upper right and lower right strokes: '7'
       [x |-> 6,  y |-> 0,  w |-> 9, h |-> 16, card |-> Card({1, 2, 6}, {}, 0)],
       \* a bar with a colon merged into its right edge
       [x |-> 16, y |-> 0,  w |-> 7, h |-> 16, card |-> Card({}, {1, 3}, 3)],
       \* two specks of the same area, one above the other
       [x |-> 24, y |-> 14, w |-> 2, h |-> 2,  card |-> Card({}, {}, 2)],
       [x |-> 24, y |-> 4,  w |-> 2, h |-> 2,  card |-> Card({}, {}, 2)],
       \* upper left, lower left and bottom strokes: 'L'
       [x |-> 27, y |-> 0,  w |-> 9, h |-> 16, card |-> Card({0, 4, 5}, {}, 0)] >>

SceneWidth == 36

SceneHeight == 16

\* the discovery orders: sequences of distinct scene contours
Scenes ==
    {s \in UNION {[1..n -> 1..Len(SceneContours)] : n \in 0..MaxContours} :
        \A a, b \in DOMAIN s : a # b => s[a] # s[b]}

ScenePaint(s) ==
    UNION {LET c == SceneContours[s[k]]
           IN  {<<p[1] + c.x, p[2] + c.y>> :
                    p \in GlyphPaint(c.w, c.h, c.card.strokes, c.card.dots, c.card.bar)}
           : k \in DOMAIN s}

BoundingRect(c) == [x |-> c.x, y |-> c.y, w |-> c.w, h |-> c.h]

(***************************************************************************)
(* Python floats.  width / height, max_width / aspect_ratio and            *)
(* max_height * aspect_ratio are IEEE 754 double operations: the exact     *)
(* result rounded to 53 significant bits, ties to even.  The 53-bit        *)
(* significands do not fit the integers of the model checker, so a natural *)
(* number is a sequence of limbs in base LimbBase, least significant       *)
(* first, without leading zero limbs; a positive double is [m, e], the     *)
(* number m * 2^e with m below 2^53.                                       *)
(***************************************************************************)
LimbBase == 32768

LimbBits == 15

SignificandBits == 53

RECURSIVE BigNorm(_)
\* drop the zero limbs at the top
BigNorm(a) ==
    IF a = <<>> THEN <<>>
    ELSE IF a[Len(a)] = 0 THEN BigNorm(SubSeq(a, 1, Len(a) - 1))
    ELSE a

RECURSIVE BigFromInt(_)
BigFromInt(n) ==
    IF n = 0 THEN <<>> ELSE <<n % LimbBase>> \o BigFromInt(n \div LimbBase)

RECURSIVE BigToInt(_)
BigToInt(a) ==
    IF a = <<>> THEN 0 ELSE Head(a) + LimbBase * BigToInt(Tail(a))

RECURSIVE BigMulCarry(_, _, _)
\* a * k + carry, for k below LimbBase
BigMulCarry(a, k, carry) ==
    IF a = <<>> THEN BigFromInt(carry)
    ELSE LET t == Head(a) * k + carry
         IN  <<t % LimbBase>> \o BigMulCarry(Tail(a), k, t \div LimbBase)

BigMulSmall(a, k) == BigNorm(BigMulCarry(a, k, 0))

\* a + 1
BigIncrement(a) == BigNorm(BigMulCarry(a, 1, 1))

RECURSIVE BigDivRem(_, _, _)
\* quotient limbs and remainder of (rem * LimbBase^Len(a) + a) by d, for d
\* up to LimbBase; the limbs are taken from the most significant
BigDivRem(a, d, rem) ==
    IF a = <<>> THEN [q |-> <<>>, r |-> rem]
    ELSE LET t    == rem * LimbBase + a[Len(a)]
             rest == BigDivRem(SubSeq(a, 1, Len(a) - 1), d, t % d)
         IN  [q |-> Append(rest.q, t \div d), r |-> rest.r]

BigDivSmall(a, d) ==
    LET qr == BigDivRem(a, d, 0) IN [q |-> BigNorm(qr.q), r |-> qr.r]

RECURSIVE BigLess(_, _)
\* a < b
BigLess(a, b) ==
    IF Len(a) # Len(b) THEN Len(a) < Len(b)
    ELSE IF a = <<>> THEN FALSE
    ELSE IF a[Len(a)] # b[Len(b)] THEN a[Len(a)] < b[Len(b)]
    ELSE BigLess(SubSeq(a, 1, Len(a) - 1), SubSeq(b, 1, Len(b) - 1))

RECURSIVE BigSubBorrow(_, _, _)
\* a - b - borrow, for a >= b + borrow
BigSubBorrow(a, b, borrow) ==
    IF a = <<>> THEN <<>>
    ELSE LET t == Head(a) - (IF b = <<>> THEN 0 ELSE Head(b)) - borrow
         IN  <<(t + LimbBase) % LimbBase>>
                \o BigSubBorrow(Tail(a), IF b = <<>> THEN <<>> ELSE Tail(b),
                                IF t < 0 THEN 1 ELSE 0)

BigSub(a, b) == BigNorm(BigSubBorrow(a, b, 0))

RECURSIVE SmallBitLength(_)
SmallBitLength(n) == IF n = 0 THEN 0 ELSE 1 + SmallBitLength(n \div 2)

BigBitLength(a) ==
    IF a = <<>> THEN 0 ELSE LimbBits * (Len(a) - 1) + SmallBitLength(a[Len(a)])

\* bit j of a, bit 0 the least significant
BigBit(a, j) ==
    LET k == j \div LimbBits + 1
    IN  IF k > Len(a) THEN 0 ELSE (a[k] \div 2 ^ (j % LimbBits)) % 2

\* some bit of a below bit j is set
BigLowBits(a, j) ==
    \/ \E k \in 1..Min(j \div LimbBits, Len(a)) : a[k] # 0
    \/ /\ j \div LimbBits + 1 <= Len(a)
       /\ a[j \div LimbBits + 1] % 2 ^ (j % LimbBits) # 0

\* floor(a / 2^s)
BigShiftRight(a, s) ==
    LET whole == s \div LimbBits
    IN  IF whole >= Len(a) THEN <<>>
        ELSE BigDivSmall(SubSeq(a, whole + 1, Len(a)), 2 ^ (s % LimbBits)).q

\* a * 2^s
BigShiftLeft(a, s) ==
    IF a = <<>> THEN <<>>
    ELSE [k \in 1..(s \div LimbBits) |-> 0] \o BigMulSmall(a, 2 ^ (s % LimbBits))

\* the double nearest to n * 2^e (a little more than it when sticky), for a
\* n of at least SignificandBits + 2 bits when sticky: round to nearest, ties
\* to even
FloatRound(n, e, sticky) ==
    LET s == BigBitLength(n) - SignificandBits
    IN  IF s <= 0 THEN [m |-> n, e |-> e]
        ELSE LET q     == BigShiftRight(n, s)
                 guard == BigBit(n, s - 1) = 1
                 low   == sticky \/ BigLowBits(n, s - 1)
                 up    == guard /\ (low \/ BigBit(q, 0) = 1)
             IN  [m |-> IF up THEN BigIncrement(q) ELSE q, e |-> e + s]

QuotientShift == 75

\* a / b for two positive ints below LimbBase
FloatDivInts(a, b) ==
    LET qr == BigDivSmall(BigShiftLeft(BigFromInt(a), QuotientShift), b)
    IN  FloatRound(qr.q, 0 - QuotientShift, qr.r # 0)

\* k * x for a positive int k below LimbBase and a double x
FloatMulInt(k, x) == FloatRound(BigMulSmall(x.m, k), x.e, FALSE)

\* the limb of a at position k, 0 above the top
BigLimb(a, k) == IF k <= Len(a) THEN a[k] ELSE 0

\* the largest q with q * d <= r, for r < d * LimbBase and a d whose top limb
\* is at least LimbBase / 2: the quotient of the top limbs is q, q + 1 or q + 2
BigQuotientDigit(r, d) ==
    LET top     == BigLimb(r, Len(d) + 1) * LimbBase + BigLimb(r, Len(d))
        est     == Min(top \div d[Len(d)], LimbBase - 1)
        Fits(q) == ~BigLess(r, BigMulSmall(d, q))
    IN  IF Fits(est) THEN est ELSE IF Fits(est - 1) THEN est - 1 ELSE est - 2

RECURSIVE BigLongDivision(_, _, _, _)
\* long division of (q * d + r) * LimbBase^steps by d, for r < d: the
\* quotient and whether a remainder is left
BigLongDivision(r, d, steps, q) ==
    IF steps = 0 THEN [q |-> BigNorm(q), rest |-> r # <<>>]
    ELSE LET rr    == IF r = <<>> THEN <<>> ELSE <<0>> \o r
             digit == BigQuotientDigit(rr, d)
         IN  BigLongDivision(BigSub(rr, BigMulSmall(d, digit)), d, steps - 1,
                             <<digit>> \o q)

DivisorLimbs == 8

\* k / x for a positive int k below LimbBase and a double x of 53 bits
FloatDivByFloat(k, x) ==
    LET shift == LimbBits * Len(x.m) - BigBitLength(x.m)
        qr    == BigLongDivision(BigShiftLeft(BigFromInt(k), shift),
                                 BigShiftLeft(x.m, shift), DivisorLimbs, <<>>)
    IN  FloatRound(qr.q, 0 - LimbBits * DivisorLimbs - x.e, qr.rest)

\* int(x) for a positive double x whose integer part is an int
FloatToInt(x) ==
    IF x.e >= 0 THEN BigToInt(BigShiftLeft(x.m, x.e))
    ELSE BigToInt(BigShiftRight(x.m, 0 - x.e))

(***************************************************************************)
(* image_utils.constrain_size.  An image is [id, width, height]: the id    *)
(* tells one array object from another.  A scale factor is the pair        *)
(* <<numerator, denominator>> of the division the code makes: the double   *)
(* returned is that quotient rounded, and two such quotients of ints below *)
(* LimbBase are the same double only if they are the same number.          *)
(***************************************************************************)
NoImage == [id |-> "None", width |-> 0, height |-> 0]

NotCalled == [called |-> FALSE]

\* cv2.resize(img, scaled_size): a new array, another object than its
\* argument, or cv2.error for an empty size
Resize(image, scaled_width, scaled_height, scaling) ==
    IF scaled_width = 0 \/ scaled_height = 0
    THEN [img |-> NoImage, scaling |-> scaling, raised |-> TRUE]
    ELSE [img |-> [id |-> "resize(" \o image.id \o ")",
                   width |-> scaled_width, height |-> scaled_height],
          scaling |-> scaling, raised |-> FALSE]

\* constrain_size scaling every image by its height, wide or not
DownscaleByHeight(image, max_width, max_height) ==
    LET aspect_ratio == FloatDivInts(image.width, image.height)
        scaled_width == FloatToInt(FloatMulInt(max_height, aspect_ratio))
    IN  Resize(image, scaled_width, max_height, <<scaled_width, image.width>>)

\* lines 29-40: aspect_ratio = width / height; a wide image gets max_width
\* and int(max_width / aspect_ratio), a tall or square one max_height and
\* int(max_height * aspect_ratio)
Downscale(image, max_width, max_height) ==
    LET aspect_ratio == FloatDivInts(image.width, image.height)
    IN  IF image.width > image.height
        THEN LET scaled_height == FloatToInt(FloatDivByFloat(max_width, aspect_ratio))
             IN  Resize(image, max_width, scaled_height,
                        <<scaled_height, image.height>>)
        ELSE LET scaled_width == FloatToInt(FloatMulInt(max_height, aspect_ratio))
             IN  Resize(image, scaled_width, max_height,
                        <<scaled_width, image.width>>)

\* constrain_size with the test for "no resizing" made strict
ConstrainSizeStrict(image, max_width, max_height) ==
    IF image.width < max_width /\ image.height < max_height
    THEN [img |-> image, scaling |-> <<1, 1>>, raised |-> FALSE]
    ELSE Downscale(image, max_width, max_height)

\* lines 24-26: if width <= max_width and height <= max_height: return (img, 1.0)
ConstrainSize(image, max_width, max_height) ==
    IF image.width <= max_width /\ image.height <= max_height
    THEN [img |-> image, scaling |-> <<1, 1>>, raised |-> FALSE]
    ELSE Downscale(image, max_width, max_height)

NoLimits == [max_width |-> 0, max_height |-> 0]

ResizeIdle ==
    /\ img = NoImage
    /\ limits = NoLimits
    /\ resized = NotCalled
    /\ resized_again = NotCalled

(***************************************************************************)
(* Detector.  SIFT and FLANN are known by what they hand to the code: the  *)
(* number of features of an image and, for each feature of the input, the  *)
(* distances to its nearest reference features.                            *)
(***************************************************************************)
max_dimension == 1000

match_ratio == 70

min_good_matches == 10

NotStarted == [ret |-> "idle"]

NoHomography == [estimated |-> FALSE]

DetectIdle ==
    /\ panel = [img |-> NoImage, keypoints |-> 0]
    /\ desc = 0
    /\ matches = <<>>
    /\ good = <<>>
    /\ homography = NoHomography
    /\ warped = FALSE
    /\ dpc = "idle"
    /\ detected = NotStarted

(***************************************************************************)
(* services/utils.py and the Python conversions the services rely on.  A   *)
(* Python value is a record [type, int, scale, seq]: an int; a float, the  *)
(* decimal int * 10^-scale that str() prints; a str, the sequence of its   *)
(* code points; a bytes, the sequence of its bytes; None; or an exception  *)
(* raised in place of a value.                                             *)
(***************************************************************************)
PyNone == [type |-> "None", int |-> 0, scale |-> 0, seq |-> <<>>]

PyInt(n) == [type |-> "int", int |-> n, scale |-> 0, seq |-> <<>>]

PyFloat(n, s) == [type |-> "float", int |-> n, scale |-> s, seq |-> <<>>]

PyStr(chars) == [type |-> "str", int |-> 0, scale |-> 0, seq |-> chars]

PyBytes(bytes) == [type |-> "bytes", int |-> 0, scale |-> 0, seq |-> bytes]

PyRaise(exception) == [type |-> exception, int |-> 0, scale |-> 0, seq |-> <<>>]

RECURSIVE DecimalDigits(_)
DecimalDigits(n) ==
    IF n < 10 THEN <<48 + n>>
    ELSE Append(DecimalDigits(n \div 10), 48 + (n % 10))

\* str(n) of an int
StrOfInt(n) == IF n < 0 THEN <<45>> \o DecimalDigits(-n) ELSE DecimalDigits(n)

\* str(x) of a float that prints without an exponent: '3.33', '10.0'
StrOfFloat(n, s) ==
    LET d      == DecimalDigits(Abs(n))
        padded == IF Len(d) <= s THEN [k \in 1..(s + 1 - Len(d)) |-> 48] \o d ELSE d
        whole  == SubSeq(padded, 1, Len(padded) - s)
        frac   == IF s = 0 THEN <<48>>
                  ELSE SubSeq(padded, Len(padded) - s + 1, Len(padded))
    IN  (IF n < 0 THEN <<45>> ELSE <<>>) \o whole \o <<46>> \o frac

\* str(val) of a value that is not a byte string
StrOf(val) ==
    CASE val.type = "int"   -> StrOfInt(val.int)
      [] val.type = "float" -> StrOfFloat(val.int, val.scale)
      [] val.type = "str"   -> val.seq
      [] val.type = "None"  -> <<78, 111, 110, 101>>

Utf8OfCodePoint(c) ==
    IF c < 128 THEN <<c>>
    ELSE IF c < 2048 THEN <<192 + (c \div 64), 128 + (c % 64)>>
    ELSE <<224 + (c \div 4096), 128 + ((c \div 64) % 64), 128 + (c % 64)>>

\* s.encode('utf8'), for code points of the basic plane
RECURSIVE EncodeUtf8(_)
EncodeUtf8(chars) ==
    IF chars = <<>> THEN <<>>
    ELSE Utf8OfCodePoint(Head(chars)) \o EncodeUtf8(Tail(chars))

\* utils.py 14-22: a byte string as it is, else str(val).encode('utf8')
to_bytes(val) ==
    IF val.type = "bytes" THEN val.seq ELSE EncodeUtf8(StrOf(val))

\* utils.py 7-12: ':'.join(components)
build_id(first, second) == first \o ":" \o second

IsSpace(c) == c \in {9, 10, 11, 12, 13, 32}

RECURSIVE LStrip(_)
LStrip(b) == IF b # <<>> /\ IsSpace(Head(b)) THEN LStrip(Tail(b)) ELSE b

RECURSIVE RStrip(_)
RStrip(b) ==
    IF b # <<>> /\ IsSpace(b[Len(b)]) THEN RStrip(SubSeq(b, 1, Len(b) - 1)) ELSE b

IsDigits(b) == b # <<>> /\ \A k \in DOMAIN b : b[k] \in 48..57

RECURSIVE DigitsValue(_)
DigitsValue(b) ==
    IF b = <<>> THEN 0
    ELSE 10 * DigitsValue(SubSeq(b, 1, Len(b) - 1)) + (b[Len(b)] - 48)

\* the literal without blanks at its ends and without its sign
Unsigned(b) ==
    LET s == RStrip(LStrip(b))
    IN  IF s # <<>> /\ Head(s) \in {43, 45} THEN Tail(s) ELSE s

Negative(b) == LET s == LStrip(b) IN s # <<>> /\ Head(s) = 45

\* int(b) of a byte string: blanks, a sign, decimal digits (no underscores)
IntOfBytes(b) ==
    IF IsDigits(Unsigned(b))
    THEN PyInt(IF Negative(b) THEN -DigitsValue(Unsigned(b))
               ELSE DigitsValue(Unsigned(b)))
    ELSE PyRaise("ValueError")

RECURSIVE Shortest(_, _)
Shortest(n, s) ==
    IF s > 0 /\ n % 10 = 0 THEN Shortest(n \div 10, s - 1) ELSE PyFloat(n, s)

\* float(b) of a byte string: blanks, a sign, digits with at most one point
\* (no exponent, no inf or nan)
FloatOfBytes(b) ==
    LET body   == Unsigned(b)
        points == {k \in DOMAIN body : body[k] = 46}
        p      == IF points = {} THEN Len(body) + 1 ELSE CHOOSE k \in points : TRUE
        whole  == SubSeq(body, 1, p - 1)
        frac   == SubSeq(body, p + 1, Len(body))
        sign   == IF Negative(b) THEN -1 ELSE 1
    IN  IF Cardinality(points) <= 1 /\ IsDigits(whole \o frac)
        THEN Shortest(sign * DigitsValue(whole \o frac), Len(frac))
        ELSE PyRaise("ValueError")

\* b.decode('utf8'): [ok, seq], for sequences of at most three bytes
RECURSIVE DecodeUtf8(_)
DecodeUtf8(b) ==
    IF b = <<>> THEN [ok |-> TRUE, seq |-> <<>>]
    ELSE LET c == Head(b)
             n == IF c < 128 THEN 1
                  ELSE IF c \in 194..223 THEN 2
                  ELSE IF c \in 224..239 THEN 3 ELSE 0
         IN  IF n = 0 \/ Len(b) < n \/ \E k \in 2..n : b[k] \notin 128..191
             THEN [ok |-> FALSE, seq |-> <<>>]
             ELSE LET cp   == IF n = 1 THEN c
                              ELSE IF n = 2 THEN (c - 192) * 64 + (b[2] - 128)
                              ELSE (c - 224) * 4096 + (b[2] - 128) * 64 + (b[3] - 128)
                      rest == DecodeUtf8(SubSeq(b, n + 1, Len(b)))
                  IN  [ok |-> rest.ok, seq |-> <<cp>> \o rest.seq]

\* the 16-bit units of a byte string, in one byte order
DecodeUtf16Units(b, little) ==
    LET units == [k \in 1..(Len(b) \div 2) |->
                     IF little THEN b[2 * k - 1] + 256 * b[2 * k]
                               ELSE 256 * b[2 * k - 1] + b[2 * k]]
    IN  IF Len(b) % 2 = 1 \/ \E k \in DOMAIN units : units[k] \in 55296..57343
        THEN [ok |-> FALSE, seq |-> <<>>]
        ELSE [ok |-> TRUE, seq |-> units]

\* b.decode(encoding): the results it can have.  'utf16' follows the byte
\* order mark; without one it takes the byte order of the machine.
Decode(b, encoding) ==
    IF encoding = "utf8" THEN {DecodeUtf8(b)}
    ELSE IF Len(b) >= 2 /\ b[1] = 255 /\ b[2] = 254
         THEN {DecodeUtf16Units(SubSeq(b, 3, Len(b)), TRUE)}
    ELSE IF Len(b) >= 2 /\ b[1] = 254 /\ b[2] = 255
         THEN {DecodeUtf16Units(SubSeq(b, 3, Len(b)), FALSE)}
    ELSE {DecodeUtf16Units(b, TRUE), DecodeUtf16Units(b, FALSE)}

\* s.encode('utf16') as the tests build their byte strings: the byte order
\* mark, then the units of the basic plane, low byte first
RECURSIVE EncodeUtf16Units(_)
EncodeUtf16Units(chars) ==
    IF chars = <<>> THEN <<>>
    ELSE <<Head(chars) % 256, Head(chars) \div 256>> \o EncodeUtf16Units(Tail(chars))

EncodeUtf16(chars) == <<255, 254>> \o EncodeUtf16Units(chars)

(***************************************************************************)
(* services/settings.py: DictSettingsStore and the Settings descriptors.   *)
(* The dictionary is a function from the keys present to byte sequences.   *)
(***************************************************************************)
\* line 55: self._settings = {}
EmptyDict == [key \in {} |-> <<>>]

\* lines 57-58: self._settings[key] = to_bytes(val)
DictSet(dict, key, val) ==
    [k \in DOMAIN dict \cup {key} |-> IF k = key THEN to_bytes(val) ELSE dict[k]]

\* set_default overwriting a value that is present
DictSetDefaultAlways(dict, key, val) == DictSet(dict, key, val)

\* lines 60-61: self._settings.setdefault(key, to_bytes(val))
DictSetDefault(dict, key, val) ==
    IF key \in DOMAIN dict THEN dict ELSE DictSet(dict, key, val)

\* get returning an empty byte string for a key that is not there
DictGetEmpty(dict, key) ==
    IF key \in DOMAIN dict THEN PyBytes(dict[key]) ELSE PyBytes(<<>>)

\* lines 63-64: self._settings.get(key, None)
DictGet(dict, key) ==
    IF key \in DOMAIN dict THEN PyBytes(dict[key]) ELSE PyNone

\* lines 66-71: del self._settings[key], a KeyError ignored
DictDelete(dict, key) == [k \in DOMAIN dict \ {key} |-> dict[k]]

\* a descriptor as declared in a Settings class: Value, IntValue, FloatValue
\* or StrValue, its default, its name keyword and its encoding
Descriptor(attr, kind, default, name, encoding) ==
    [attr |-> attr, kind |-> kind, default |-> default, name |-> name,
     encoding |-> encoding]

\* the class attributes, in the order of the class body: those of
\* tests/test_settings.py TestSettings, and an IntValue with a default as in
\* DigitReaderParameters
Descriptors ==
    << Descriptor("raw_default",  "Value",      PyBytes(<<102, 111, 111>>), None, "utf8"),
       Descriptor("raw_name",     "Value",      PyNone, "special_name", "utf8"),
       Descriptor("int_value",    "IntValue",   PyNone, None, "utf8"),
       Descriptor("open_kernel_size", "IntValue", PyInt(5), None, "utf8"),
       Descriptor("float_value",  "FloatValue", PyNone, None, "utf8"),
       Descriptor("str_value",    "StrValue",   PyNone, None, "utf8"),
       Descriptor("str_encoding", "StrValue",   PyNone, None, "utf16") >>

\* lines 207-213: __set_name__ keeps an explicit name
ValueName(d) == IF d.name = None THEN d.attr ELSE d.name

\* _key naming the attribute even when a name was given
ValueKeyOfAttr(owner, d) == build_id(owner, d.attr)

\* lines 200-205: build_id(obj._settings_name, self._value_name)
ValueKey(owner, d) == build_id(owner, ValueName(d))

\* lines 215-268: __get__ of each descriptor class: what it makes of the
\* value the store returned
ValueGet(d, val) ==
    IF val = PyNone \/ d.kind = "Value" THEN {val}
    ELSE IF d.kind = "IntValue" THEN {IntOfBytes(val.seq)}
    ELSE IF d.kind = "FloatValue" THEN {FloatOfBytes(val.seq)}
    ELSE {IF r.ok THEN PyStr(r.seq) ELSE PyRaise("UnicodeDecodeError") :
             r \in Decode(val.seq, d.encoding)}

\* lines 303-311: set_default for every descriptor that has a default, from
\* the k-th on
RECURSIVE SetDefaults(_, _, _)
SetDefaults(dict, owner, k) ==
    IF k > Len(Descriptors) THEN dict
    ELSE LET d == Descriptors[k]
         IN  SetDefaults(IF d.default # PyNone
                         THEN DictSetDefault(dict, ValueKey(owner, d), d.default)
                         ELSE dict,
                         owner, k + 1)

\* the Settings subclass and the name keyword of its construction
ClassName == "TestSettings"

SettingsNames == {None, "kitchen"}

\* lines 296-299: name defaults to the class name
SettingsName(name) == IF name = None THEN ClassName ELSE name

NoOperation == [op |-> "none", attr |-> "", key |-> "", val |-> PyNone]

SettingsIdle ==
    /\ store = EmptyDict
    /\ settings_name = ClassName
    /\ constructed = FALSE
    /\ assigned = EmptyDict
    /\ settings_op = NoOperation

(***************************************************************************)
(* services/message_bus.py: SimpleMessageBus.  self._bus is a function     *)
(* from the channels that have an entry to their sets of callbacks.  A     *)
(* callback is known by what it does when it is invoked.                   *)
(***************************************************************************)
\* "record" notes the call as the callbacks of tests/test_message_bus.py
\* do; "unsubscribe" also takes itself off the channel it was called for
CallbackDoes == [callback1 |-> "record", once |-> "unsubscribe"]

Callbacks == DOMAIN CallbackDoes

Channels == {PyStr(<<102, 111, 111>>), PyStr(<<98, 97, 114>>)}

Messages == {PyStr(<<98, 97, 114>>), PyInt(10)}

\* lines 64-67: self._bus.setdefault(channel, set()).add(callback)
BusSubscribe(dict, channel, callback) ==
    [c \in DOMAIN dict \cup {channel} |->
        IF c = channel
        THEN (IF channel \in DOMAIN dict THEN dict[channel] ELSE {}) \cup {callback}
        ELSE dict[c]]

\* unsubscribe leaving the callback where it is
BusUnsubscribeKeeps(dict, channel, callback) == dict

\* lines 69-72: discard the callback if the channel has an entry
BusUnsubscribe(dict, channel, callback) ==
    IF channel \in DOMAIN dict
    THEN [c \in DOMAIN dict |->
             IF c = channel THEN dict[c] \ {callback} ELSE dict[c]]
    ELSE dict

\* one call of a callback, as the callback sees it
Call(callback, channel, message) ==
    [callback |-> callback, channel |-> channel, message |-> message]

\* what the invoked callback does to the bus
Invoke(dict, callback, channel) ==
    IF CallbackDoes[callback] = "unsubscribe"
    THEN BusUnsubscribe(dict, channel, callback)
    ELSE dict

\* the orders in which a set can be iterated
Orders(set) ==
    {order \in [1..Cardinality(set) -> set] :
        \A k, l \in DOMAIN order : k # l => order[k] # order[l]}

\* lines 61-62: for cb in self._bus[channel]: cb(to_bytes(channel), message).
\* The set iterator raises RuntimeError when it is asked for the next
\* element of a set that changed size since the loop began.
RECURSIVE Deliver(_, _, _, _, _, _)
Deliver(dict, channel, message, order, k, log) ==
    IF Cardinality(dict[channel]) # Len(order)
    THEN [bus |-> dict, calls |-> log, raised |-> TRUE]
    ELSE IF k > Len(order)
    THEN [bus |-> dict, calls |-> log, raised |-> FALSE]
    ELSE Deliver(Invoke(dict, order[k], channel), channel, message, order, k + 1,
                 Append(log, Call(order[k], PyBytes(to_bytes(channel)), message)))

\* lines 57-62: publish: the outcomes it can have, one for each order of
\* iteration
BusPublish(dict, channel, message, log) ==
    IF channel \in DOMAIN dict
    THEN {Deliver(dict, channel, PyBytes(to_bytes(message)), order, 1, log) :
             order \in Orders(dict[channel])}
    ELSE {[bus |-> dict, calls |-> log, raised |-> FALSE]}

NoBusOperation ==
    [op |-> "none", channel |-> PyNone, callback |-> "", message |-> PyNone,
     subscribed |-> {}, first |-> 1, raised |-> FALSE]

BusIdle ==
    /\ bus = EmptyDict
    /\ callback_calls = <<>>
    /\ published = 0
    /\ bus_op = NoBusOperation

(***************************************************************************)
(* services/message_bus.py: RedisThreadedMessageBus.  The redis server and *)
(* redis-py are known by what they do to the bus: publish hands redis a    *)
(* message, which redis sends to the pattern subscription of the bus as    *)
(* {'channel': ..., 'data': ...}, both byte strings, in the order of the   *)
(* publishes; the worker thread takes the messages one by one and hands    *)
(* each to _callback; thread.stop() asks the worker to end, which it does  *)
(* at a moment of its own, between two messages.                           *)
(***************************************************************************)
\* the namespace keyword of the constructor: none, or 'test' as in the tests
Namespaces == {PyNone, PyStr(<<116, 101, 115, 116>>)}

\* the channel the redis bus is used on: 'foo'
RedisChannels == {PyStr(<<102, 111, 111>>)}

\* lines 113-119: _channel(channel): build_id(namespace, channel) if there is
\* a namespace, as bytes
BusChannel(ns, channel) ==
    PyBytes(to_bytes(IF ns # PyNone
                     THEN PyStr(ns.seq \o <<58>> \o channel.seq)
                     ELSE channel))

\* a message as redis-py hands it to the handler: data['channel'] and
\* data['data']; given and number tell which publish call it came from
PMessage(channel, data, given, number) ==
    [channel |-> channel, data |-> data, given |-> given, number |-> number]

NoData == PMessage(PyNone, PyNone, PyNone, 0)

\* one call of a callback by _callback, as the callback sees it
RedisCall(callback, data) ==
    [callback |-> callback, channel |-> data.channel, message |-> data.data,
     number |-> data.number]

\* lines 110-111: for cb in self._callbacks[channel]: cb(channel, message),
\* the lock held.  A callback that calls unsubscribe waits for the lock its
\* own thread holds, and never returns.
RECURSIVE RedisDeliver(_, _, _, _)
RedisDeliver(data, order, k, log) ==
    IF k > Len(order) THEN [calls |-> log, pc |-> "waiting"]
    ELSE IF CallbackDoes[order[k]] = "unsubscribe"
    THEN [calls |-> Append(log, RedisCall(order[k], data)), pc |-> "blocked"]
    ELSE RedisDeliver(data, order, k + 1, Append(log, RedisCall(order[k], data)))

\* lines 108-111: what _callback does once it has the lock: the outcomes,
\* one for each order of iteration
RedisCallback(cbs, data, log) ==
    IF cbs.none THEN {[calls |-> log, pc |-> "TypeError"]}
    ELSE IF data.channel \in DOMAIN cbs.dict
    THEN {RedisDeliver(data, order, 1, log) : order \in Orders(cbs.dict[data.channel])}
    ELSE {[calls |-> log, pc |-> "waiting"]}

\* lines 84-97: the bus as the constructor leaves it
RedisConstructed ==
    /\ callbacks = [none |-> FALSE, dict |-> EmptyDict]
    /\ callbacks_lock = "free"
    /\ thread = [none |-> FALSE]
    /\ pubsub = <<>>
    /\ worker = [pc |-> "waiting", running |-> TRUE, data |-> NoData]
    /\ main = "ready"
    /\ issued = <<>>
    /\ redis_calls = <<>>

RedisIdle ==
    /\ namespace = PyNone
    /\ RedisConstructed

ServicesIdle ==
    /\ SettingsIdle
    /\ BusIdle
    /\ RedisIdle

Running == [ret |-> "running", digits |-> <<>>]

ReturnNone == [ret |-> "None", digits |-> <<>>]

ReturnString(str) == [ret |-> "str", digits |-> str]

InitLocals ==
    /\ digit_contours = <<>>
    /\ pc = "start"
    /\ i = 0
    /\ digit_value = None
    /\ decoded_digits = <<>>
    /\ result = Running
    /\ attempts = <<>>
    /\ debug_plot_func \in BOOLEAN
    /\ plotted = <<>>

\* a panel whose only contour is one painted glyph
InitGlyph ==
    /\ led_contours = 1
    /\ one_digit_filled_area \in OneDigitFilledAreaValues
    /\ \E size \in GlyphSizes : \E card \in GlyphCards(size[1]) :
          /\ panel_digits = [width |-> size[1], height |-> size[2],
                             lit |-> GlyphPaint(size[1], size[2], card.strokes,
                                                card.dots, card.bar)]
          /\ contours = << [x |-> 0, y |-> 0, w |-> size[1], h |-> size[2]] >>
    /\ InitLocals

\* a panel of several contours, discovered in any order
InitScene ==
    /\ led_contours = 1
    /\ one_digit_filled_area = one_digit_filled_area_default
    /\ \E s \in Scenes :
          /\ panel_digits = [width |-> SceneWidth, height |-> SceneHeight,
                             lit |-> ScenePaint(s)]
          /\ contours = [k \in DOMAIN s |-> BoundingRect(SceneContours[s[k]])]
    /\ InitLocals

\* a panel on which the HSV threshold finds no red LED at all
\* rows of glyphs of unequal height: plain lit boxes 2 wide on a panel 8
\* wide and 6 tall, at the left edges RowSlots, with <<height, top>> from
\* RowShapes.  3 of 5 rows is the 0.6 of the height normalization.
RowSlots == {0, 3, 6}

RowShapes == {<<5, 1>>, <<4, 2>>, <<3, 3>>, <<3, 0>>, <<2, 0>>, <<2, 4>>}

RowContour(box) == [x |-> box[1], y |-> box[2][2], w |-> 2, h |-> box[2][1]]

\* the discovery orders: sequences of boxes at distinct slots
Rows ==
    {r \in UNION {[1..n -> RowSlots \X RowShapes] : n \in 1..Cardinality(RowSlots)} :
        \A a, b \in DOMAIN r : a # b => r[a][1] # r[b][1]}

RowPaint(r) ==
    UNION {{<<x, y>> : x \in RowContour(r[k]).x..(RowContour(r[k]).x + 1),
                       y \in RowContour(r[k]).y..
                                 (RowContour(r[k]).y + RowContour(r[k]).h - 1)} :
              k \in DOMAIN r}

InitRow ==
    /\ led_contours = 1
    /\ one_digit_filled_area = one_digit_filled_area_default
    /\ \E r \in Rows :
          /\ panel_digits = [width |-> 8, height |-> 6, lit |-> RowPaint(r)]
          /\ contours = [k \in DOMAIN r |-> RowContour(r[k])]
    /\ InitLocals

InitNoLed ==
    /\ led_contours = 0
    /\ one_digit_filled_area = one_digit_filled_area_default
    /\ panel_digits = [width |-> 0, height |-> 0, lit |-> {}]
    /\ contours = <<>>
    /\ InitLocals

Init ==
    /\ InitGlyph \/ InitScene \/ InitRow \/ InitNoLed
    /\ ResizeIdle
    /\ DetectIdle
    /\ ServicesIdle

(***************************************************************************)
(* DigitReader.read_digits                                                 *)
(***************************************************************************)
\* lines 275-279: if len(contours) < 1: return None
NoLedFound ==
    /\ pc = "start"
    /\ led_contours < 1
    /\ result' = ReturnNone
    /\ pc' = "done"
    /\ plotted' = DebugPlotAll(plotted, << <<"LED HSV color threshold">>,
                                           <<"Opened threshold">> >>)
    /\ UNCHANGED <<debug_plot_func, one_digit_filled_area, led_contours,
                   panel_digits, contours,
                   digit_contours, i, digit_value, decoded_digits, attempts>>
    /\ UNCHANGED <<resize_vars, detect_vars, service_vars>>

\* lines 280-348: crop, binarize, find the glyph contours, keep at most four,
\* order them left to right and expand the short ones
FindDigitContours ==
    /\ pc = "start"
    /\ led_contours >= 1
    /\ digit_contours' = ExtractGlyphs(contours)
    /\ i' = 1
    /\ pc' = "loop"
    /\ plotted' = DebugPlotAll(plotted, << <<"LED HSV color threshold">>,
                                           <<"Opened threshold">>,
                                           <<"Cropped LED panel">>,
                                           <<"Thresholded and dilated digits">> >>)
    /\ UNCHANGED <<debug_plot_func, one_digit_filled_area, led_contours,
                   panel_digits, contours,
                   digit_value, decoded_digits, result, attempts>>
    /\ UNCHANGED <<resize_vars, detect_vars, service_vars>>

\* what one _detect_digit call was given and did: the glyph it was made for,
\* the image, the return statement reached, the segment tuple looked up (if
\* the lookup was reached) and the value returned
Attempt(glyph, cropped, image) ==
    [glyph |-> glyph, cropped |-> cropped, image |-> image,
     path |-> DetectPath(image),
     segments |-> IF DetectPath(image) = "lookup" THEN Segments(image) ELSE <<>>,
     value |-> DetectDigit(image)]

\* lines 352-358: digit_value = self._detect_digit(digit_image)
DetectFull ==
    /\ pc = "loop"
    /\ i <= Len(digit_contours)
    /\ LET image == DigitImage(digit_contours[i])
       IN  /\ plotted' = DebugPlotAll(plotted, << <<"Digit", i - 1>> >>
                                                  \o SegmentTitles(image))
           /\ digit_value' = DetectDigit(image)
           /\ attempts' = Append(attempts, Attempt(i, FALSE, image))
    /\ pc' = "first"
    /\ UNCHANGED <<debug_plot_func, one_digit_filled_area, led_contours,
                   panel_digits, contours,
                   digit_contours, i, decoded_digits, result>>
    /\ UNCHANGED <<resize_vars, detect_vars, service_vars>>

\* DetectCropped making the retry only when there is no debug_plot function
DetectCroppedUnlessPlotting ==
    /\ pc = "first"
    /\ digit_value = None
    /\ LET image == CroppedImage(digit_contours[i])
       IN  IF debug_plot_func
           THEN /\ plotted' = DebugPlot(plotted, <<"Cropped digit", i - 1>>)
                /\ UNCHANGED <<digit_value, attempts>>
           ELSE /\ digit_value' = DetectDigit(image)
                /\ attempts' = Append(attempts, Attempt(i, TRUE, image))
                /\ UNCHANGED plotted
    /\ pc' = "second"
    /\ UNCHANGED <<debug_plot_func, one_digit_filled_area, led_contours,
                   panel_digits, contours,
                   digit_contours, i, decoded_digits, result>>
    /\ UNCHANGED <<resize_vars, detect_vars, service_vars>>

\* lines 362-368: if digit_value is None, retry on the cropped glyph
DetectCropped ==
    /\ pc = "first"
    /\ digit_value = None
    /\ LET image == CroppedImage(digit_contours[i])
       IN  /\ plotted' = DebugPlotAll(plotted, << <<"Cropped digit", i - 1>> >>
                                                  \o SegmentTitles(image))
           /\ digit_value' = DetectDigit(image)
           /\ attempts' = Append(attempts, Attempt(i, TRUE, image))
    /\ pc' = "second"
    /\ UNCHANGED <<debug_plot_func, one_digit_filled_area, led_contours,
                   panel_digits, contours,
                   digit_contours, i, decoded_digits, result>>
    /\ UNCHANGED <<resize_vars, detect_vars, service_vars>>

\* FailReading returning what was decoded so far
FailReadingPartial ==
    /\ pc = "second"
    /\ digit_value = None
    /\ result' = ReturnString(decoded_digits)
    /\ pc' = "done"
    /\ UNCHANGED plotted
    /\ UNCHANGED <<debug_plot_func, one_digit_filled_area, led_contours,
                   panel_digits, contours,
                   digit_contours, i, digit_value, decoded_digits, attempts>>
    /\ UNCHANGED <<resize_vars, detect_vars, service_vars>>

\* lines 370-371: if digit_value is None: return None
FailReading ==
    /\ pc = "second"
    /\ digit_value = None
    /\ result' = ReturnNone
    /\ pc' = "done"
    /\ UNCHANGED plotted
    /\ UNCHANGED <<debug_plot_func, one_digit_filled_area, led_contours,
                   panel_digits, contours,
                   digit_contours, i, digit_value, decoded_digits, attempts>>
    /\ UNCHANGED <<resize_vars, detect_vars, service_vars>>

\* line 373: decoded_digits += digit_value, and on to the next glyph
AppendDigit ==
    /\ pc \in {"first", "second"}
    /\ digit_value # None
    /\ decoded_digits' = Append(decoded_digits, digit_value)
    /\ i' = i + 1
    /\ pc' = "loop"
    /\ UNCHANGED plotted
    /\ UNCHANGED <<debug_plot_func, one_digit_filled_area, led_contours,
                   panel_digits, contours,
                   digit_contours, digit_value, result, attempts>>
    /\ UNCHANGED <<resize_vars, detect_vars, service_vars>>

\* line 374: return decoded_digits
ReturnDigits ==
    /\ pc = "loop"
    /\ i > Len(digit_contours)
    /\ result' = ReturnString(decoded_digits)
    /\ pc' = "done"
    /\ UNCHANGED plotted
    /\ UNCHANGED <<debug_plot_func, one_digit_filled_area, led_contours,
                   panel_digits, contours,
                   digit_contours, i, digit_value, decoded_digits, attempts>>
    /\ UNCHANGED <<resize_vars, detect_vars, service_vars>>

Next ==
    \/ NoLedFound
    \/ FindDigitContours
    \/ DetectFull
    \/ DetectCropped
    \/ FailReading
    \/ AppendDigit
    \/ ReturnDigits

Spec == Init /\ [][Next]_vars

(***************************************************************************)
(* image_utils.constrain_size on its own                                   *)
(***************************************************************************)
MaxSide == 8

MaxLimit == 6

ReaderIdle ==
    /\ one_digit_filled_area = one_digit_filled_area_default
    /\ led_contours = 0
    /\ panel_digits = [width |-> 0, height |-> 0, lit |-> {}]
    /\ contours = <<>>
    /\ digit_contours = <<>>
    /\ pc = "idle"
    /\ i = 0
    /\ digit_value = None
    /\ decoded_digits = <<>>
    /\ result = Running
    /\ attempts = <<>>
    /\ debug_plot_func = FALSE
    /\ plotted = <<>>

\* images and limits beyond the small ones: those of the unit tests and
\* some of other proportions
Photos ==
    {<<50, 50>>, <<100, 100>>, <<200, 200>>, <<200, 100>>, <<100, 200>>,
     <<18, 14>>, <<14, 18>>, <<2, 98>>}

PhotoLimits == {<<100, 100>>, <<25, 25>>, <<9, 9>>, <<49, 49>>}

InitResize ==
    /\ ReaderIdle
    /\ DetectIdle
    /\ ServicesIdle
    /\ \E size \in (1..MaxSide) \X (1..MaxSide) \cup Photos :
          img = [id |-> "img", width |-> size[1], height |-> size[2]]
    /\ \E max \in (1..MaxLimit) \X (1..MaxLimit) \cup PhotoLimits :
          limits = [max_width |-> max[1], max_height |-> max[2]]
    /\ resized = NotCalled
    /\ resized_again = NotCalled

\* constrain_size(img, max_width, max_height)
CallConstrainSize ==
    /\ limits # NoLimits
    /\ resized = NotCalled
    /\ resized' = ConstrainSize(img, limits.max_width, limits.max_height)
    /\ UNCHANGED <<img, limits, resized_again, reader_vars, detect_vars, service_vars>>

\* constrain_size(result, max_width, max_height) on the image returned
CallConstrainSizeAgain ==
    /\ limits # NoLimits
    /\ resized # NotCalled
    /\ ~resized.raised
    /\ resized_again = NotCalled
    /\ resized_again' = ConstrainSize(resized.img, limits.max_width, limits.max_height)
    /\ UNCHANGED <<img, limits, resized, reader_vars, detect_vars, service_vars>>

NextResize ==
    \/ CallConstrainSize
    \/ CallConstrainSizeAgain

SpecResize == InitResize /\ [][NextResize]_vars

(***************************************************************************)
(* Detector.detect_panel                                                   *)
(***************************************************************************)
MaxFrameFeatures == 11

MaxPanelFeatures == 2

\* the input frames: one within max_dimension and one to be scaled down
Frames ==
    {[id |-> "img", width |-> 800, height |-> 600],
     [id |-> "img", width |-> 2000, height |-> 1000]}

\* the reference image given to the constructor
PanelImage == [id |-> "panel_img", width |-> 1200, height |-> 1600]

\* the distances of the DMatch objects of one row of knnMatch(k=2): at most
\* two, as many as the reference has descriptors, nearest first
KnnRows(train) ==
    IF train >= 2 THEN {<<6, 10>>, <<7, 10>>, <<8, 10>>}
    ELSE IF train = 1 THEN {<<6>>, <<8>>}
    ELSE {<<>>}

\* lines 60-75: Detector(panel_img)
InitDetect ==
    /\ ReaderIdle
    /\ ServicesIdle
    /\ limits = NoLimits
    /\ resized = NotCalled
    /\ resized_again = NotCalled
    /\ img \in Frames
    /\ \E keypoints \in 0..MaxPanelFeatures :
          panel = [img |-> ConstrainSize(PanelImage, max_dimension, max_dimension).img,
                   keypoints |-> keypoints]
    /\ desc = 0
    /\ matches = <<>>
    /\ good = <<>>
    /\ homography = NoHomography
    /\ warped = FALSE
    /\ dpc = "start"
    /\ detected = [ret |-> "running"]

\* lines 85-89: constrain_size, to_grayscale, detectAndCompute
DetectFeatures ==
    /\ dpc = "start"
    /\ resized' = ConstrainSize(img, max_dimension, max_dimension)
    /\ \E n \in 0..MaxFrameFeatures : desc' = n
    /\ dpc' = "features"
    /\ UNCHANGED <<service_vars, reader_vars, img, limits, resized_again, panel,
                   matches, good, homography,
                   warped, detected>>

\* line 92: self._flann.knnMatch(desc, self._panel_descriptors, k=2).  No
\* descriptors of the input: no rows.  Descriptors of the input and none of
\* the reference: the FLANN index cannot be built and cv2.error is raised.
KnnMatch ==
    /\ dpc = "features"
    /\ IF desc = 0
       THEN /\ matches' = <<>>
            /\ dpc' = "matched"
            /\ UNCHANGED detected
       ELSE IF panel.keypoints = 0
       THEN /\ detected' = [ret |-> "raise", error |-> "cv2.error"]
            /\ dpc' = "done"
            /\ UNCHANGED matches
       ELSE /\ matches' \in [1..desc -> KnnRows(panel.keypoints)]
            /\ dpc' = "matched"
            /\ UNCHANGED detected
    /\ UNCHANGED <<service_vars, reader_vars, resize_vars, panel, desc, good, homography, warped>>

\* GoodMatch with the ratio test not strict
GoodMatchOrEqual(row) == 100 * row[1] <= match_ratio * row[2]

\* m.distance < self._params.match_ratio*n.distance
GoodMatch(row) == 100 * row[1] < match_ratio * row[2]

\* lines 96-97: good = [m for m, n in matches if ...]; a row that is not a
\* pair cannot be unpacked
FilterGood ==
    /\ dpc = "matched"
    /\ IF \E k \in DOMAIN matches : Len(matches[k]) # 2
       THEN /\ detected' = [ret |-> "raise", error |-> "ValueError"]
            /\ dpc' = "done"
            /\ UNCHANGED good
       ELSE /\ good' = SelectSeq(matches, GoodMatch)
            /\ dpc' = "filtered"
            /\ UNCHANGED detected
    /\ UNCHANGED <<service_vars, reader_vars, resize_vars, panel, desc, matches,
                   homography, warped>>

\* lines 100-101: if len(good) < self._params.min_good_matches: return None
NotFound ==
    /\ dpc = "filtered"
    /\ Len(good) < min_good_matches
    /\ detected' = [ret |-> "None"]
    /\ dpc' = "done"
    /\ UNCHANGED <<service_vars, reader_vars, resize_vars, panel, desc, matches, good,
                   homography, warped>>

\* lines 104-109: cv2.findHomography(img_pts, panel_pts, cv2.RANSAC)
FindHomography ==
    /\ dpc = "filtered"
    /\ Len(good) >= min_good_matches
    /\ homography' = [estimated |-> TRUE, points |-> Len(good)]
    /\ dpc' = "homography"
    /\ UNCHANGED <<service_vars, reader_vars, resize_vars, panel, desc, matches, good,
                   warped, detected>>

\* lines 110-111: return cv2.warpPerspective(color_img, homography, (width, height))
WarpPerspective ==
    /\ dpc = "homography"
    /\ warped' = TRUE
    /\ detected' = [ret |-> "image", width |-> panel.img.width,
                    height |-> panel.img.height]
    /\ dpc' = "done"
    /\ UNCHANGED <<service_vars, reader_vars, resize_vars, panel, desc, matches, good, homography>>

NextDetect ==
    \/ DetectFeatures
    \/ KnnMatch
    \/ FilterGood
    \/ NotFound
    \/ FindHomography
    \/ WarpPerspective

SpecDetect == InitDetect /\ [][NextDetect]_vars

(***************************************************************************)
(* Settings on a DictSettingsStore                                         *)
(***************************************************************************)
\* the values assigned to each attribute
SettingsValues(d) ==
    CASE d.attr = "raw_default"      -> {PyBytes(<<98, 97, 114>>)}
      [] d.attr = "raw_name"         -> {PyInt(10)}
      [] d.attr = "int_value"        -> {PyInt(10), PyInt(-3)}
      [] d.attr = "open_kernel_size" -> {PyInt(10)}
      [] d.attr = "float_value"      -> {PyFloat(333, 2)}
      [] d.attr = "str_value"        -> {PyStr(<<72, 105>>), PyStr(<<233>>)}
      [] d.attr = "str_encoding"     -> {PyStr(<<72, 105>>),
                                         PyBytes(EncodeUtf16(<<72, 105>>))}

Operation(op, d, val) ==
    [op |-> op, attr |-> d.attr, key |-> ValueKey(settings_name, d), val |-> val]

\* a new DictSettingsStore, and the name every Settings on it will be given
InitSettings ==
    /\ ReaderIdle
    /\ ResizeIdle
    /\ DetectIdle
    /\ BusIdle
    /\ RedisIdle
    /\ store = EmptyDict
    /\ \E name \in SettingsNames : settings_name = SettingsName(name)
    /\ constructed = FALSE
    /\ assigned = EmptyDict
    /\ settings_op = NoOperation

\* lines 289-311: Settings.__init__(store, name)
SettingsInit ==
    /\ store' = SetDefaults(store, settings_name, 1)
    /\ constructed' = TRUE
    /\ settings_op' = [op |-> "init", attr |-> "", key |-> "", val |-> PyNone]
    /\ UNCHANGED <<settings_name, assigned>>
    /\ UNCHANGED <<reader_vars, resize_vars, detect_vars, bus_vars, redis_vars>>

\* lines 220-223: settings.attr = val
SetAttr ==
    /\ constructed
    /\ \E k \in DOMAIN Descriptors : \E val \in SettingsValues(Descriptors[k]) :
          LET d == Descriptors[k]
          IN  /\ store' = DictSet(store, ValueKey(settings_name, d), val)
              /\ assigned' = [key \in DOMAIN assigned \cup {ValueKey(settings_name, d)} |->
                                 IF key = ValueKey(settings_name, d) THEN val
                                 ELSE assigned[key]]
              /\ settings_op' = Operation("set", d, val)
    /\ UNCHANGED <<settings_name, constructed>>
    /\ UNCHANGED <<reader_vars, resize_vars, detect_vars, bus_vars, redis_vars>>

\* lines 215-268: settings.attr read
GetAttr ==
    /\ constructed
    /\ \E k \in DOMAIN Descriptors :
          LET d == Descriptors[k]
          IN  \E val \in ValueGet(d, DictGet(store, ValueKey(settings_name, d))) :
                 settings_op' = Operation("get", d, val)
    /\ UNCHANGED <<store, settings_name, constructed, assigned>>
    /\ UNCHANGED <<reader_vars, resize_vars, detect_vars, bus_vars, redis_vars>>

\* lines 225-227: del settings.attr
DelAttr ==
    /\ constructed
    /\ \E k \in DOMAIN Descriptors :
          LET d == Descriptors[k]
          IN  /\ store' = DictDelete(store, ValueKey(settings_name, d))
              /\ assigned' = [key \in DOMAIN assigned \ {ValueKey(settings_name, d)} |->
                                 assigned[key]]
              /\ settings_op' = Operation("delete", d, PyNone)
    /\ UNCHANGED <<settings_name, constructed>>
    /\ UNCHANGED <<reader_vars, resize_vars, detect_vars, bus_vars, redis_vars>>

NextSettings ==
    \/ SettingsInit
    \/ SetAttr
    \/ GetAttr
    \/ DelAttr

SpecSettings == InitSettings /\ [][NextSettings]_vars

(***************************************************************************)
(* SimpleMessageBus                                                        *)
(***************************************************************************)
\* the most publish calls of one run
MaxPublishes == 2

InitBus ==
    /\ ReaderIdle
    /\ ResizeIdle
    /\ DetectIdle
    /\ SettingsIdle
    /\ BusIdle
    /\ RedisIdle

BusOperation(op, channel, callback, message, raised) ==
    [op |-> op, channel |-> channel, callback |-> callback, message |-> message,
     subscribed |-> IF channel \in DOMAIN bus THEN bus[channel] ELSE {},
     first |-> Len(callback_calls) + 1, raised |-> raised]

\* bus.subscribe(channel, callback)
Subscribe ==
    /\ \E channel \in Channels, callback \in Callbacks :
          /\ bus' = BusSubscribe(bus, channel, callback)
          /\ bus_op' = BusOperation("subscribe", channel, callback, PyNone, FALSE)
    /\ UNCHANGED <<callback_calls, published>>
    /\ UNCHANGED <<reader_vars, resize_vars, detect_vars, settings_vars, redis_vars>>

\* bus.unsubscribe(channel, callback)
Unsubscribe ==
    /\ \E channel \in Channels, callback \in Callbacks :
          /\ bus' = BusUnsubscribe(bus, channel, callback)
          /\ bus_op' = BusOperation("unsubscribe", channel, callback, PyNone, FALSE)
    /\ UNCHANGED <<callback_calls, published>>
    /\ UNCHANGED <<reader_vars, resize_vars, detect_vars, settings_vars, redis_vars>>

\* bus.publish(channel, message), the callbacks' own calls included
Publish ==
    /\ published < MaxPublishes
    /\ \E channel \in Channels, message \in Messages :
          \E outcome \in BusPublish(bus, channel, message, callback_calls) :
             /\ bus' = outcome.bus
             /\ callback_calls' = outcome.calls
             /\ bus_op' = BusOperation("publish", channel, "", message, outcome.raised)
    /\ published' = published + 1
    /\ UNCHANGED <<reader_vars, resize_vars, detect_vars, settings_vars, redis_vars>>

NextBus ==
    \/ Subscribe
    \/ Unsubscribe
    \/ Publish

SpecBus == InitBus /\ [][NextBus]_vars

(***************************************************************************)
(* RedisThreadedMessageBus                                                 *)
(***************************************************************************)
\* the most calls the calling thread makes in one run
MaxIssued == 4

InitRedis ==
    /\ ReaderIdle
    /\ ResizeIdle
    /\ DetectIdle
    /\ SettingsIdle
    /\ BusIdle
    /\ namespace \in Namespaces
    /\ RedisConstructed

Issue(op, channel, callback, message, raised) ==
    Append(issued, [op |-> op, channel |-> channel, callback |-> callback,
                    message |-> message, raised |-> raised])

\* lines 140-145: bus.subscribe(channel, callback)
RedisSubscribe ==
    /\ main = "ready"
    /\ Len(issued) < MaxIssued
    /\ callbacks_lock = "free"
    /\ \E channel \in RedisChannels, callback \in Callbacks :
          IF callbacks.none
          THEN /\ issued' = Issue("subscribe", channel, callback, PyNone,
                                  "AttributeError")
               /\ UNCHANGED callbacks
          ELSE /\ issued' = Issue("subscribe", channel, callback, PyNone, "")
               /\ callbacks' =
                     [callbacks EXCEPT
                         !.dict = BusSubscribe(@, BusChannel(namespace, channel),
                                               callback)]
    /\ UNCHANGED <<namespace, callbacks_lock, thread, pubsub, worker, main,
                   redis_calls>>
    /\ UNCHANGED <<reader_vars, resize_vars, detect_vars, settings_vars, bus_vars>>

\* lines 147-152: bus.unsubscribe(channel, callback)
RedisUnsubscribe ==
    /\ main = "ready"
    /\ Len(issued) < MaxIssued
    /\ callbacks_lock = "free"
    /\ \E channel \in RedisChannels, callback \in Callbacks :
          IF callbacks.none
          THEN /\ issued' = Issue("unsubscribe", channel, callback, PyNone,
                                  "TypeError")
               /\ UNCHANGED callbacks
          ELSE /\ issued' = Issue("unsubscribe", channel, callback, PyNone, "")
               /\ callbacks' =
                     [callbacks EXCEPT
                         !.dict = BusUnsubscribe(@, BusChannel(namespace, channel),
                                                 callback)]
    /\ UNCHANGED <<namespace, callbacks_lock, thread, pubsub, worker, main,
                   redis_calls>>
    /\ UNCHANGED <<reader_vars, resize_vars, detect_vars, settings_vars, bus_vars>>

\* lines 136-138: bus.publish(channel, message).  redis sends the message to
\* the subscription of the bus unless the worker has closed it.
RedisPublish ==
    /\ main = "ready"
    /\ Len(issued) < MaxIssued
    /\ \E channel \in RedisChannels, message \in Messages :
          /\ issued' = Issue("publish", channel, "", message, "")
          /\ pubsub' =
                IF worker.pc = "exited" THEN pubsub
                ELSE Append(pubsub, PMessage(BusChannel(namespace, channel),
                                             PyBytes(to_bytes(message)),
                                             channel, Len(issued) + 1))
    /\ UNCHANGED <<namespace, callbacks, callbacks_lock, thread, worker, main,
                   redis_calls>>
    /\ UNCHANGED <<reader_vars, resize_vars, detect_vars, settings_vars, bus_vars>>

\* lines 126-128: deinit, up to the lock: stop the worker, forget it
DeinitStop ==
    /\ main = "ready"
    /\ Len(issued) < MaxIssued
    /\ main' = "deinit"
    /\ thread' = [none |-> TRUE]
    /\ worker' = IF thread.none THEN worker ELSE [worker EXCEPT !.running = FALSE]
    /\ UNCHANGED <<namespace, callbacks, callbacks_lock, pubsub, issued,
                   redis_calls>>
    /\ UNCHANGED <<reader_vars, resize_vars, detect_vars, settings_vars, bus_vars>>

\* deinit returning without dropping the callbacks
DeinitClearKeeps ==
    /\ main = "deinit"
    /\ callbacks_lock = "free"
    /\ main' = "ready"
    /\ issued' = Issue("deinit", PyNone, "", PyNone, "")
    /\ UNCHANGED <<namespace, callbacks, callbacks_lock, thread, pubsub, worker,
                   redis_calls>>
    /\ UNCHANGED <<reader_vars, resize_vars, detect_vars, settings_vars, bus_vars>>

\* lines 129-131: deinit, with the lock: drop the callbacks, and return
DeinitClear ==
    /\ main = "deinit"
    /\ callbacks_lock = "free"
    /\ callbacks' = [none |-> TRUE, dict |-> EmptyDict]
    /\ main' = "ready"
    /\ issued' = Issue("deinit", PyNone, "", PyNone, "")
    /\ UNCHANGED <<namespace, callbacks_lock, thread, pubsub, worker, redis_calls>>
    /\ UNCHANGED <<reader_vars, resize_vars, detect_vars, settings_vars, bus_vars>>

\* the worker takes the next message and calls _callback with it (lines
\* 105-107), whether or not it was asked to stop in the meantime
Receive ==
    /\ worker.pc = "waiting"
    /\ pubsub # <<>>
    /\ worker' = [worker EXCEPT !.pc = "received", !.data = Head(pubsub)]
    /\ pubsub' = Tail(pubsub)
    /\ UNCHANGED <<namespace, callbacks, callbacks_lock, thread, main, issued,
                   redis_calls>>
    /\ UNCHANGED <<reader_vars, resize_vars, detect_vars, settings_vars, bus_vars>>

\* lines 108-111: _callback takes the lock and calls the callbacks of the
\* channel; 'channel in None' raises TypeError, which ends the worker
Handle ==
    /\ worker.pc = "received"
    /\ callbacks_lock = "free"
    /\ \E outcome \in RedisCallback(callbacks, worker.data, redis_calls) :
          /\ redis_calls' = outcome.calls
          /\ worker' = [worker EXCEPT !.pc = outcome.pc]
          /\ callbacks_lock' = IF outcome.pc = "blocked" THEN "thread" ELSE "free"
    /\ UNCHANGED <<namespace, callbacks, thread, pubsub, main, issued>>
    /\ UNCHANGED <<reader_vars, resize_vars, detect_vars, settings_vars, bus_vars>>

\* the worker, asked to stop, ends between two messages and closes the
\* subscription: what redis sent and was not handled is dropped
WorkerExit ==
    /\ worker.pc = "waiting"
    /\ ~worker.running
    /\ worker' = [worker EXCEPT !.pc = "exited"]
    /\ pubsub' = <<>>
    /\ UNCHANGED <<namespace, callbacks, callbacks_lock, thread, main, issued,
                   redis_calls>>
    /\ UNCHANGED <<reader_vars, resize_vars, detect_vars, settings_vars, bus_vars>>

NextRedis ==
    \/ RedisSubscribe
    \/ RedisUnsubscribe
    \/ RedisPublish
    \/ DeinitStop
    \/ DeinitClear
    \/ Receive
    \/ Handle
    \/ WorkerExit

SpecRedis == InitRedis /\ [][NextRedis]_vars

(***************************************************************************)
(* Properties of read_digits and _detect_digit                             *)
(***************************************************************************)
\* the positions in the history of the calls made for glyph k
AttemptsOf(k) == {a \in DOMAIN attempts : attempts[a].glyph = k}

\* the value of the last call made for glyph k
LastValue(k) ==
    attempts[CHOOSE a \in AttemptsOf(k) : \A b \in AttemptsOf(k) : b <= a].value

\* the glyph decodes to Unknown both in full and cropped
FailsTwice(dc) ==
    /\ DetectDigit(DigitImage(dc)) = None
    /\ DetectDigit(CroppedImage(dc)) = None

Decoding == led_contours >= 1 /\ pc # "start"

\* C1: read_digits returns None whenever some retained glyph decodes to
\* Unknown both on the full glyph and on the cropped glyph, and no glyph
\* after the first such glyph is decoded; otherwise it returns the string
\* whose k-th character is the value decoded for the k-th glyph.  A string
\* shorter than the glyph list is never returned.
C1_NoPartialReading ==
    /\ result.ret = "str" =>
          pc = "done" /\ Len(result.digits) = Len(digit_contours)
    /\ (pc = "done" /\ led_contours >= 1) =>
          IF \E k \in DOMAIN digit_contours : FailsTwice(digit_contours[k])
          THEN /\ result = ReturnNone
               /\ \A k \in DOMAIN digit_contours :
                     FailsTwice(digit_contours[k]) =>
                        \A a \in DOMAIN attempts : attempts[a].glyph <= k
          ELSE /\ result.ret = "str"
               /\ DOMAIN result.digits = DOMAIN digit_contours
               /\ \A k \in DOMAIN digit_contours :
                     /\ AttemptsOf(k) # {}
                     /\ LastValue(k) # None
                     /\ result.digits[k] = LastValue(k)

\* C1 witness: a reading was abandoned after two glyphs had been decoded
C1_Witness ==
    /\ pc = "done"
    /\ result = ReturnNone
    /\ Len(decoded_digits) = 2
    /\ FailsTwice(digit_contours[3])

\* glyph k will not be decoded again
Settled(k) == (pc = "loop" /\ k < i) \/ (pc = "done" /\ AttemptsOf(k) # {})

\* C2: every glyph is decoded at most twice and in a fixed order: first the
\* full bounding box; then, only if that call returned Unknown, exactly once
\* more the glyph cropped to its left int(colon_retry_crop_percent * width)
\* columns, top and bottom unchanged.  A glyph whose first call succeeds is
\* not retried and there is no third call.
C2_AtMostTwoAttempts ==
    /\ \A a, b \in DOMAIN attempts :
          a < b => attempts[a].glyph <= attempts[b].glyph
    /\ \A k \in DOMAIN digit_contours :
          LET dc     == digit_contours[k]
              width  == dc.p2[1] - dc.p1[1]
              height == dc.p2[2] - dc.p1[2]
              calls  == AttemptsOf(k)
          IN  /\ Cardinality(calls) <= 2
              /\ \A a \in calls :
                    IF \E b \in calls : b < a
                    THEN /\ attempts[a].cropped
                         /\ ~attempts[a - 1].cropped
                         /\ attempts[a - 1].glyph = k
                         /\ attempts[a - 1].value = None
                         /\ attempts[a].image =
                               [ox |-> dc.p1[1], oy |-> dc.p1[2],
                                width |-> (colon_retry_crop_percent * width) \div 100,
                                height |-> height]
                    ELSE /\ ~attempts[a].cropped
                         /\ attempts[a].image =
                               [ox |-> dc.p1[1], oy |-> dc.p1[2],
                                width |-> width, height |-> height]
              /\ Settled(k) =>
                    \E a \in calls :
                       /\ ~attempts[a].cropped
                       /\ attempts[a].value = None => Cardinality(calls) = 2
                       /\ attempts[a].value # None => Cardinality(calls) = 1

\* C2 witness: a glyph away from the left edge was retried cropped, the retry
\* succeeded and decoding went on
C2_Witness ==
    \E a \in DOMAIN attempts :
        /\ attempts[a].cropped
        /\ attempts[a].value # None
        /\ attempts[a].image.ox > 0
        /\ attempts[a].glyph < i

\* the segments a seven-segment display lights for each character, numbered
\* 0 upper left, 1 top, 2 upper right, 3 middle, 4 lower left, 5 bottom,
\* 6 lower right
SevenSegmentChart ==
    ("0" :> {0, 1, 2, 4, 5, 6}) @@ ("1" :> {2, 6}) @@
    ("2" :> {1, 2, 3, 4, 5})    @@ ("3" :> {1, 2, 3, 5, 6}) @@
    ("4" :> {0, 2, 3, 6})       @@ ("5" :> {0, 1, 3, 5, 6}) @@
    ("6" :> {0, 1, 3, 4, 5, 6}) @@ ("7" :> {1, 2, 6}) @@
    ("8" :> {0, 1, 2, 3, 4, 5, 6}) @@ ("9" :> {0, 1, 2, 3, 5, 6}) @@
    ("L" :> {0, 4, 5}) @@ ("F" :> {0, 1, 3, 4}) @@ ("n" :> {3, 4, 6})

LitSegments(segments) == {k \in 0..6 : segments[k + 1]}

\* C3: when _detect_digit reaches the table lookup it returns, for each of
\* the 13 segment patterns of the table, that pattern's character ('0'-'9',
\* 'L', 'F', 'n', 13 distinct patterns for 13 characters), and Unknown for
\* every other pattern.
C3_TableLookup ==
    /\ Cardinality(DOMAIN SevenSegmentChart) = 13
    /\ Cardinality({SevenSegmentChart[c] : c \in DOMAIN SevenSegmentChart}) = 13
    /\ \A a \in DOMAIN attempts :
          attempts[a].path = "lookup" =>
             LET lit == LitSegments(attempts[a].segments)
             IN  /\ \A c \in DOMAIN SevenSegmentChart :
                       SevenSegmentChart[c] = lit => attempts[a].value = c
                 /\ (\A c \in DOMAIN SevenSegmentChart : SevenSegmentChart[c] # lit)
                       => attempts[a].value = None

\* C3 witness: a lookup of a pattern outside the table gave Unknown and the
\* retry of the glyph was a lookup of a pattern of the table
C3_Witness ==
    \E a, b \in DOMAIN attempts :
        /\ a < b
        /\ attempts[a].path = "lookup" /\ attempts[a].value = None
        /\ \A c \in DOMAIN SevenSegmentChart :
              SevenSegmentChart[c] # LitSegments(attempts[a].segments)
        /\ attempts[b].path = "lookup" /\ attempts[b].value # None

\* the colon: fifths lit off, on, off, on, off from top to bottom
ColonShape == (0 :> FALSE) @@ (1 :> TRUE) @@ (2 :> FALSE) @@ (3 :> TRUE) @@ (4 :> FALSE)

\* C4 as claimed: every glyph whose right-hand fifths are lit in the colon
\* pattern decodes to Unknown on the first attempt, whatever its aspect
\* ratio and overall fill.
C4_ColonAlwaysUnknown ==
    \A a \in DOMAIN attempts :
        (~attempts[a].cropped /\ ColonLit(attempts[a].image) = ColonShape)
            => attempts[a].value = None

\* C4 amended: every glyph that does not take the '1' special case and whose
\* right-hand fifths (as the colon guard measures them) are lit in the
\* pattern off, on, off, on, off decodes to Unknown on the first attempt,
\* whatever its segment fills, and read_digits then retries it with the
\* right part cropped off; a glyph with any of the other 31 patterns is not
\* rejected by the colon guard.
C4_ColonGuard ==
    \A a \in DOMAIN attempts :
        /\ (/\ ~attempts[a].cropped
            /\ ColonLit(attempts[a].image) = ColonShape
            /\ attempts[a].path # "one")
              => /\ attempts[a].path = "colon"
                 /\ attempts[a].value = None
                 /\ IF a = Len(attempts)
                    THEN pc = "first"
                    ELSE /\ attempts[a + 1].glyph = attempts[a].glyph
                         /\ attempts[a + 1].cropped
                         /\ attempts[a + 1].image.width < attempts[a].image.width
        /\ ColonLit(attempts[a].image) # ColonShape => attempts[a].path # "colon"

\* C4 witness: a glyph was rejected by the colon guard and retried cropped
C4_Witness ==
    \E a \in DOMAIN attempts :
        /\ ~attempts[a].cropped
        /\ ColonLit(attempts[a].image) = ColonShape
        /\ attempts[a].path = "colon"
        /\ a < Len(attempts)
        /\ attempts[a + 1].cropped

\* the pixels _filled_area counts for a whole image: all but the last row
\* and the last column
InnerFilled(image) ==
    CountNonZero([ox |-> image.ox, oy |-> image.oy,
                  width |-> Max(image.width - 1, 0),
                  height |-> Max(image.height - 1, 0)])

InnerTotal(image) == (image.width - 1) * (image.height - 1)

AspectNearOne(image) ==
    Abs(100 * image.width - one_digit_aspect_ratio * image.height)
        <= OneDigitAspectTolerance * image.height

Retained == {digit_contours[k].src : k \in DOMAIN digit_contours}

\* what the decode loop makes of one glyph: the full glyph, else the crop
GlyphValue(dc) ==
    LET full == DetectDigit(DigitImage(dc))
    IN  IF full # None THEN full ELSE DetectDigit(CroppedImage(dc))

\* what read_digits returns for a list of glyphs
Reading(dcs) ==
    IF \E k \in DOMAIN dcs : GlyphValue(dcs[k]) = None
    THEN ReturnNone
    ELSE ReturnString([k \in DOMAIN dcs |-> GlyphValue(dcs[k])])

DistinctX ==
    \A a, b \in Retained : a # b => contours[a].x # contours[b].x

\* the retained contours as they would be discovered from left to right
LeftToRight ==
    LET order == CHOOSE q \in [1..Cardinality(Retained) -> Retained] :
                    \A k, l \in 1..Cardinality(Retained) :
                        k < l => contours[q[k]].x < contours[q[l]].x
    IN  [k \in 1..Cardinality(Retained) |-> contours[order[k]]]

Geometry(dc) == [area |-> dc.area, height |-> dc.height, p1 |-> dc.p1, p2 |-> dc.p2]

\* C6: whatever the order in which the contours were discovered, the
\* retained glyphs (1 to 4) are listed, decoded and returned in
\* non-decreasing order of the left x of their bounding boxes; and when the
\* retained contours have pairwise distinct x, the glyph list and the reading
\* are those obtained when the same contours are discovered from left to
\* right, so permuting the discovery order does not change the reading.
C6_LeftToRightOrder ==
    Decoding =>
       /\ Len(digit_contours) <= 4
       /\ \A k, l \in DOMAIN digit_contours :
             k < l => digit_contours[k].p1[1] <= digit_contours[l].p1[1]
       /\ \A a, b \in DOMAIN attempts :
             a < b => digit_contours[attempts[a].glyph].p1[1]
                         <= digit_contours[attempts[b].glyph].p1[1]
       /\ \A k \in DOMAIN decoded_digits :
             decoded_digits[k] = GlyphValue(digit_contours[k])
       /\ result.ret = "str" => result.digits = decoded_digits
       /\ DistinctX =>
             LET again == ExtractGlyphs(LeftToRight)
             IN  /\ [k \in DOMAIN again |-> Geometry(again[k])]
                       = [k \in DOMAIN digit_contours |-> Geometry(digit_contours[k])]
                 /\ pc = "done" => result = Reading(again)

\* C6 witness: four glyphs discovered from right to left were read as a
\* four-character string
C6_Witness ==
    /\ pc = "done"
    /\ result.ret = "str"
    /\ Len(result.digits) = 4
    /\ DistinctX
    /\ \A k \in 1..3 : contours[k].x > contours[k + 1].x
    /\ result.digits[1] # result.digits[2]

\* C7: when more than 4 contours are found exactly 4 are retained, every
\* retained contour has a bounding-box area at least that of every
\* discarded contour wherever the contours lie, and of two contours of the
\* same area of which one is discarded the retained one was discovered
\* first; when at most 4 contours are found all are retained.
C7_KeepFourLargest ==
    Decoding =>
       LET n         == Len(contours)
           Area(k)   == contours[k].w * contours[k].h
           Discarded == (1..n) \ Retained
       IN  /\ Retained \subseteq 1..n
           /\ Cardinality(Retained) = Len(digit_contours)
           /\ n > 4 => Len(digit_contours) = 4
           /\ n <= 4 => Discarded = {}
           /\ \A r \in Retained : \A d \in Discarded :
                 /\ Area(r) >= Area(d)
                 /\ Area(r) = Area(d) => r < d

\* C7 witness: of five contours two have the same area, the one discovered
\* first is retained and the other discarded, and the discarded one lies
\* left of a retained one
C7_Witness ==
    /\ Decoding
    /\ Len(contours) = 5
    /\ \E r \in Retained : \E d \in (1..5) \ Retained :
          /\ contours[r].w * contours[r].h = contours[d].w * contours[d].h
          /\ r < d
    /\ \E r \in Retained : \E d \in (1..5) \ Retained :
          contours[d].x < contours[r].x

(***************************************************************************)
(* Properties of Detector.detect_panel                                     *)
(***************************************************************************)
\* the features of the input whose nearest reference feature is strictly
\* nearer than match_ratio times the second nearest
GoodMatches ==
    {k \in DOMAIN matches :
        /\ Len(matches[k]) = 2
        /\ 100 * matches[k][1] < match_ratio * matches[k][2]}

\* C8: detect_panel returns None, without estimating a homography or
\* warping, exactly when the number of good matches (nearest distance
\* strictly less than match_ratio times the second-nearest distance) is less
\* than min_good_matches; with exactly min_good_matches good matches it
\* estimates the homography and returns a rectified image.
C8_NotFoundIffTooFewGood ==
    dpc = "done" =>
       /\ detected.ret = "None" <=> Cardinality(GoodMatches) < min_good_matches
       /\ detected.ret = "None" => ~homography.estimated /\ ~warped
       /\ Cardinality(GoodMatches) = min_good_matches =>
             /\ homography.estimated
             /\ warped
             /\ detected.ret = "image"

\* the same threshold, for the calls in which knnMatch returned rows of two
\* matches: too few good matches is the one reason for None, and the
\* minimum itself is enough for an image of the size of the reference
ThresholdWhenMatched ==
    (dpc = "done" /\ detected.ret # "raise") =>
       /\ Len(good) = Cardinality(GoodMatches)
       /\ detected.ret = "None" <=> Cardinality(GoodMatches) < min_good_matches
       /\ detected.ret = "None" => ~homography.estimated /\ ~warped
       /\ Cardinality(GoodMatches) >= min_good_matches =>
             /\ homography.estimated
             /\ warped
             /\ detected = [ret |-> "image", width |-> panel.img.width,
                            height |-> panel.img.height]

\* C9: if feature extraction yields no features for the input frame or for
\* the reference template, detect_panel returns None and raises nothing.
C9_NoFeaturesNotFound ==
    (dpc = "done" /\ (desc = 0 \/ panel.keypoints = 0)) => detected.ret = "None"

(***************************************************************************)
(* Properties of image_utils.constrain_size                                *)
(***************************************************************************)
\* C10: for every image with width <= max_width and height <= max_height,
\* equality included, constrain_size returns the very same image object
\* together with the scale factor 1.0.
C10_SmallImageUnchanged ==
    (/\ resized # NotCalled
     /\ img.width <= limits.max_width
     /\ img.height <= limits.max_height)
       => /\ ~resized.raised
          /\ resized.img = img
          /\ resized.scaling[1] = resized.scaling[2]
          /\ resized.scaling[2] > 0

\* C10 witness: an image exactly as large as the limits came back as it was
C10_Witness ==
    /\ resized # NotCalled
    /\ img.width = limits.max_width
    /\ img.height = limits.max_height
    /\ img.width # img.height
    /\ resized.img = img

\* the call returned an image
Returned == resized # NotCalled /\ ~resized.raised

\* C11: for every image of width and height at least 1 and every max_width
\* and max_height at least 1, equal or not, the image constrain_size returns
\* is at most max_width pixels wide and at most max_height pixels tall.
C11_WithinLimits ==
    Returned => /\ resized.img.width <= limits.max_width
                /\ resized.img.height <= limits.max_height

\* C12: constrain_size never upscales: the returned image's width and height
\* are at most the input's, and the scale factor is above 0 and at most 1.0.
C12_NeverUpscales ==
    /\ Returned => /\ resized.img.width <= img.width
                   /\ resized.img.height <= img.height
    /\ Returned => /\ resized.scaling[1] > 0
                   /\ resized.scaling[1] <= resized.scaling[2]

SquareLimit == limits.max_width = limits.max_height

Longer(image) == Max(image.width, image.height)

Shorter(image) == Min(image.width, image.height)

\* C13: for a square maximum M x M and an image with a side longer than M,
\* the returned image has its longer side exactly M and its other side
\* floor(M * shorter / longer), and when M * shorter is divisible by longer
\* the scale factor is M / longer.
C13_LongerSideToMaximum ==
    (/\ resized # NotCalled
     /\ SquareLimit
     /\ Longer(img) > limits.max_width)
       => LET M == limits.max_width
              other == (M * Shorter(img)) \div Longer(img)
          IN  other >= 1 =>
              /\ ~resized.raised
              /\ resized.img.width = IF img.width >= img.height THEN M ELSE other
              /\ resized.img.height = IF img.height >= img.width THEN M ELSE other
              /\ (M * Shorter(img)) % Longer(img) = 0
                    => resized.scaling[1] * Longer(img) = M * resized.scaling[2]

\* C14: for a square maximum M x M, constrain_size applied with the same M
\* to an image it returned gives that image back unchanged, the same
\* object, with the scale factor 1.0.
C14_Idempotent ==
    (SquareLimit /\ resized_again # NotCalled)
       => /\ ~resized_again.raised
          /\ resized_again.img = resized.img
          /\ resized_again.scaling = <<1, 1>>

\* C14 witness: an image was scaled down to a smaller one, not a square, and
\* the second call gave the smaller image back
C14_Witness ==
    /\ SquareLimit
    /\ resized_again # NotCalled
    /\ resized.img # img
    /\ resized.img.width # resized.img.height
    /\ resized_again.img = resized.img

(***************************************************************************)
(* Properties of the debug_plot function and of malformed glyphs           *)
(***************************************************************************)
\* the _detect_digit calls read_digits makes for the glyphs from the k-th on
RECURSIVE ExpectedAttempts(_, _)
ExpectedAttempts(dcs, k) ==
    IF k > Len(dcs) THEN <<>>
    ELSE LET full == Attempt(k, FALSE, DigitImage(dcs[k]))
             crop == Attempt(k, TRUE, CroppedImage(dcs[k]))
         IN  IF full.value # None THEN <<full>> \o ExpectedAttempts(dcs, k + 1)
             ELSE IF crop.value # None
                  THEN <<full, crop>> \o ExpectedAttempts(dcs, k + 1)
                  ELSE <<full, crop>>

\* C15: the debug observer has no effect on results or control flow: for
\* every panel and parameter set, read_digits returns the same value and
\* makes the same sequence of decode attempts with debug_plot None as with
\* an observer attached.  Both are given here by the panel and parameters
\* alone, whatever debug_plot_func is, and without an observer nothing is
\* plotted.
C15_DebugPlotNoEffect ==
    /\ pc = "done" =>
          IF led_contours < 1
          THEN attempts = <<>> /\ result = ReturnNone
          ELSE /\ attempts = ExpectedAttempts(ExtractGlyphs(contours), 1)
               /\ result = Reading(ExtractGlyphs(contours))
    /\ ~debug_plot_func => plotted = <<>>

\* C15 witness: with an observer attached, a glyph was plotted and decoded
\* in full and cropped, and the reading was returned
C15_Witness ==
    /\ debug_plot_func
    /\ pc = "done"
    /\ result.ret = "str"
    /\ \E a \in DOMAIN attempts : attempts[a].cropped
    /\ \E n \in DOMAIN plotted : plotted[n][1] = "Cropped digit"
    /\ \E n \in DOMAIN plotted : plotted[n][1] = "Segment"

\* the call got past the '1' and colon tests, to the sampling of segments
ReachedSampling(image) == ~OneDigitCase(image) /\ ~ColonDetected(image)

\* one of the seven sampling rectangles is empty: no columns or no rows
Degenerate(image) ==
    \E k \in 1..7 :
        LET s == SegmentRects(image)[k]
        IN  s.x1 = s.x0 \/ s.y1 = s.y0

Malformed(image) ==
    /\ image.width >= 0
    /\ image.height >= 1
    /\ ReachedSampling(image)
    /\ Degenerate(image)

\* C16: for every glyph image of width >= 0 and height >= 1, the zero-width
\* crop of a 1-pixel-wide glyph included, a _detect_digit call that reaches
\* segment sampling with one of the seven sub-regions of zero area returns
\* Unknown at that point, without a lookup; and read_digits returns None
\* for the frame when both attempts on a glyph end this way.
C16_ZeroAreaIsUnknown ==
    /\ \A a \in DOMAIN attempts :
          Malformed(attempts[a].image) =>
             /\ attempts[a].value = None
             /\ attempts[a].path = "zero_area"
             /\ attempts[a].segments = <<>>
    /\ pc = "done" =>
          \A k \in DOMAIN digit_contours :
              (/\ AttemptsOf(k) # {}
               /\ Malformed(DigitImage(digit_contours[k]))
               /\ Malformed(CroppedImage(digit_contours[k])))
                 => /\ result = ReturnNone
                    /\ Cardinality(AttemptsOf(k)) = 2
                    /\ \A a \in DOMAIN attempts : attempts[a].glyph <= k

\* C16 witness: a glyph one pixel wide failed in full and as the zero-width
\* crop, and read_digits returned None
C16_Witness ==
    /\ pc = "done"
    /\ result = ReturnNone
    /\ \E a \in DOMAIN attempts :
          /\ attempts[a].cropped
          /\ attempts[a].image.width = 0
          /\ attempts[a].path = "zero_area"
          /\ attempts[a - 1].image.width = 1
          /\ attempts[a - 1].path = "zero_area"

(***************************************************************************)
(* Properties of Settings on a DictSettingsStore                           *)
(***************************************************************************)
\* the descriptors that declare a default
Defaulted == {k \in DOMAIN Descriptors : Descriptors[k].default # PyNone}

DefaultKeys == {ValueKey(settings_name, Descriptors[k]) : k \in Defaulted}

\* C17: whatever sets, deletes and constructions came before, constructing
\* a Settings on the store leaves the value of every key already present
\* unchanged, and gives each absent key whose Value declares a default that
\* default, which the attribute then reads in its own type; no other key
\* appears.
C17_DefaultsKeepValues ==
    [][settings_op'.op = "init" =>
          /\ \A key \in DOMAIN store :
                key \in DOMAIN store' /\ store'[key] = store[key]
          /\ \A k \in Defaulted :
                LET d   == Descriptors[k]
                    key == ValueKey(settings_name, d)
                IN  key \notin DOMAIN store =>
                       /\ key \in DOMAIN store'
                       /\ store'[key] = to_bytes(d.default)
                       /\ ValueGet(d, DictGet(store', key)) = {d.default}
          /\ DOMAIN store' = DOMAIN store \cup DefaultKeys]_vars

\* C17 witness: a Settings was constructed on a store in which raw_default
\* had been assigned b'bar' and other attributes had been assigned too: the
\* assigned values are there, and open_kernel_size holds its default
C17_Witness ==
    /\ settings_op.op = "init"
    /\ Cardinality(DOMAIN assigned) >= 2
    /\ build_id(settings_name, "raw_default") \in DOMAIN assigned
    /\ store[build_id(settings_name, "raw_default")] = <<98, 97, 114>>
    /\ build_id(settings_name, "open_kernel_size") \notin DOMAIN assigned
    /\ store[build_id(settings_name, "open_kernel_size")] = <<53>>

\* the descriptor of an attribute
DescriptorOf(attr) ==
    Descriptors[CHOOSE k \in DOMAIN Descriptors : Descriptors[k].attr = attr]

\* '<SettingsName>:<value name>', the explicit name when one was given
NamedKey(attr) ==
    settings_name \o ":" \o (IF attr = "raw_name" THEN "special_name" ELSE attr)

\* the bytes a store holds for an assigned value: a byte string as it is,
\* anything else as the UTF-8 bytes of its str()
StoredBytes(v) == IF v.type = "bytes" THEN v.seq ELSE EncodeUtf8(StrOf(v))

\* a byte string with the two bytes of every 16-bit unit exchanged
SwapBytes(b) == [k \in DOMAIN b |-> IF k % 2 = 1 THEN b[k + 1] ELSE b[k - 1]]

\* a read of an attribute whose last assignment was not followed by a
\* delete of its key
ReadsAssigned ==
    /\ settings_op.op = "get"
    /\ settings_op.key \in DOMAIN assigned

ReadsUnset ==
    /\ settings_op.op = "get"
    /\ settings_op.key \notin DOMAIN assigned
    /\ DescriptorOf(settings_op.attr).default = PyNone

\* C19: an attribute without a default that was never set, or was deleted
\* after its last set, reads as None, whether it is a raw, int, float or
\* str Value; and a delete removes the attribute's key, if it is there, and
\* changes no other key, so that deleting an attribute that is not set
\* leaves the store as it was and raises nothing.
C19_UnsetReadsNone ==
    /\ [](ReadsUnset => settings_op.val = PyNone)
    /\ [][settings_op'.op = "delete" =>
             /\ settings_op'.val = PyNone
             /\ DOMAIN store' = DOMAIN store \ {settings_op'.key}
             /\ \A key \in DOMAIN store' : store'[key] = store[key]
             /\ settings_op'.key \notin DOMAIN store => store' = store]_vars

\* C19 witness: float_value, not assigned or deleted since, reads None
\* while other attributes hold values
C19_Witness ==
    /\ ReadsUnset
    /\ settings_op.attr = "float_value"
    /\ settings_op.val = PyNone
    /\ Cardinality(DOMAIN assigned) >= 2
    /\ build_id(settings_name, "raw_default") \in DOMAIN store

(***************************************************************************)
(* Properties of SimpleMessageBus                                          *)
(***************************************************************************)
\* the calls the last publish made
Delivered == SubSeq(callback_calls, bus_op.first, Len(callback_calls))

\* C20: publish(c, m) invokes every callback subscribed to c when it is
\* called exactly once, however often that callback was subscribed, with
\* the channel name and the message as byte strings, and invokes no
\* callback that is not subscribed to c; on a channel without subscribers
\* it invokes nothing.
C20_PublishReachesSubscribers ==
    bus_op.op = "publish" =>
       /\ \A callback \in bus_op.subscribed :
             Cardinality({n \in DOMAIN Delivered :
                             Delivered[n].callback = callback}) = 1
       /\ \A n \in DOMAIN Delivered :
             /\ Delivered[n].callback \in bus_op.subscribed
             /\ Delivered[n].channel = PyBytes(StoredBytes(bus_op.channel))
             /\ Delivered[n].message = PyBytes(StoredBytes(bus_op.message))
       /\ bus_op.subscribed = {} => Delivered = <<>>

\* the callbacks subscribed to a channel
SubscribedTo(dict, channel) == IF channel \in DOMAIN dict THEN dict[channel] ELSE {}

\* the calls a step adds to the history
NewCalls == SubSeq(callback_calls', Len(callback_calls) + 1, Len(callback_calls'))

\* C21: unsubscribe(c, cb) takes cb, and nothing else, off c and makes no
\* call; a callback comes to be subscribed to c only by subscribe(c, cb);
\* and no step invokes for c a callback that is not subscribed to c when
\* the step begins: so after the unsubscribe no publish on c invokes cb
\* until it is subscribed again.  The calls made earlier stay as they were,
\* and unsubscribing what is not subscribed leaves the bus as it was and
\* raises nothing.
C21_UnsubscribeStopsDelivery ==
    [][/\ bus_op'.op = "unsubscribe" =>
             /\ bus_op'.callback \notin SubscribedTo(bus', bus_op'.channel)
             /\ \A c \in Channels :
                   SubscribedTo(bus', c) =
                      IF c = bus_op'.channel
                      THEN SubscribedTo(bus, c) \ {bus_op'.callback}
                      ELSE SubscribedTo(bus, c)
             /\ callback_calls' = callback_calls
             /\ ~bus_op'.raised
             /\ bus_op'.callback \notin SubscribedTo(bus, bus_op'.channel) =>
                   bus' = bus
       /\ \A c \in Channels, cb \in Callbacks :
             /\ (cb \in SubscribedTo(bus', c) /\ cb \notin SubscribedTo(bus, c)) =>
                   /\ bus_op'.op = "subscribe"
                   /\ bus_op'.channel = c
                   /\ bus_op'.callback = cb
             /\ cb \notin SubscribedTo(bus, c) =>
                   \A n \in DOMAIN NewCalls :
                      ~(/\ NewCalls[n].callback = cb
                        /\ NewCalls[n].channel = PyBytes(StoredBytes(c)))
       /\ Len(callback_calls') >= Len(callback_calls)
       /\ SubSeq(callback_calls', 1, Len(callback_calls)) = callback_calls]_vars

\* C21 witness: subscribe; publish m1; unsubscribe; publish m2 on one
\* channel: the history is the one call with m1, and the second publish
\* found the channel's set empty
C21_Witness ==
    /\ bus_op.op = "publish"
    /\ published = 2
    /\ bus_op.channel \in DOMAIN bus
    /\ bus_op.subscribed = {}
    /\ Len(callback_calls) = 1
    /\ callback_calls[1].callback = "callback1"
    /\ callback_calls[1].channel = PyBytes(StoredBytes(bus_op.channel))
    /\ callback_calls[1].message # PyBytes(StoredBytes(bus_op.message))

(***************************************************************************)
(* Properties of RedisThreadedMessageBus                                   *)
(***************************************************************************)
\* the publish call a callback's call came from
PublishOf(call) == issued[call.number]

\* C22: on a bus constructed with a namespace every callback is called with
\* the channel name as it was given to publish, as bytes and without the
\* namespace, and with the message as bytes: the pair SimpleMessageBus
\* hands over for the same calls.
C22_ChannelWithoutNamespace ==
    namespace # PyNone =>
       \A n \in DOMAIN redis_calls :
          /\ redis_calls[n].channel =
                PyBytes(StoredBytes(PublishOf(redis_calls[n]).channel))
          /\ redis_calls[n].message =
                PyBytes(StoredBytes(PublishOf(redis_calls[n]).message))

\* the calling thread made exactly the calls subscribe(c, cb);
\* publish(c, m1); unsubscribe(c, cb); publish(c, m2), and all returned
Script(c, cb) ==
    /\ Len(issued) = 4
    /\ \A n \in 1..4 : issued[n].channel = c /\ issued[n].raised = ""
    /\ issued[1].op = "subscribe" /\ issued[1].callback = cb
    /\ issued[2].op = "publish"
    /\ issued[3].op = "unsubscribe" /\ issued[3].callback = cb
    /\ issued[4].op = "publish"

\* nothing is left to deliver: redis has no message in flight and the
\* worker holds none
Quiet == pubsub = <<>> /\ worker.pc = "waiting"

\* the calls a callback received, as positions of the history
CallsOf(cb) == {n \in DOMAIN redis_calls : redis_calls[n].callback = cb}

\* C23: when one thread has made the calls subscribe(c, cb); publish(c, m1);
\* unsubscribe(c, cb); publish(c, m2), for a callback that only records its
\* calls, then once delivery has come to rest cb was invoked exactly once,
\* with m1, however the calls and the worker were interleaved.
C23_InvokedOnceWithFirst ==
    \A c \in RedisChannels, cb \in Callbacks :
       (CallbackDoes[cb] = "record" /\ Script(c, cb) /\ Quiet) =>
          /\ Cardinality(CallsOf(cb)) = 1
          /\ \A n \in CallsOf(cb) : redis_calls[n].number = 2

\* a call of deinit has returned
Deinitialized == \E n \in DOMAIN issued : issued[n].op = "deinit"

\* C24: once deinit has returned no callback is invoked any more, whatever
\* the worker was doing when deinit was called and whether messages were
\* published before or after; and every deinit returns without raising, a
\* repeated one leaving the bus as it is.
C24_NoCallAfterDeinit ==
    /\ [](\A n \in DOMAIN issued : issued[n].op = "deinit" => issued[n].raised = "")
    /\ [][Deinitialized =>
             /\ redis_calls' = redis_calls
             /\ callbacks' = callbacks
             /\ thread' = thread]_vars

\* C24 witness: deinit returned while the worker had a message for a
\* subscribed callback in hand; the worker then found no callbacks and
\* raised, no call was made, and deinit was called once more
C24_Witness ==
    /\ Len(issued) = 4
    /\ issued[1].op = "subscribe"
    /\ issued[2].op = "publish"
    /\ issued[3].op = "deinit"
    /\ issued[4].op = "deinit"
    /\ worker.pc = "TypeError"
    /\ worker.data.number = 2
    /\ redis_calls = <<>>

(***************************************************************************)
(* Properties of the regions _detect_digit samples                         *)
(***************************************************************************)
\* the rectangles _detect_digit samples in an image: the five colon bands
\* and the seven segment regions
Regions(image) ==
    {ColonBand(image, k) : k \in 0..4} \cup {SegmentRects(image)[k] : k \in 1..7}

\* the filled-pixel ratio of a rectangle: the lit pixels of
\* image[y0:y1, x0:x1] over the pixels of image[y0:y1, x0:x1]
RegionRatio(image, rect) ==
    LET region == Slice(image, rect.y0, rect.y1, rect.x0, rect.x1)
    IN  [num |-> CountNonZero(region), den |-> region.width * region.height]

\* the verdict of the colon check on a rectangle
ColonVerdict(image, rect) ==
    Exceeds(FilledArea(image, rect), segment_filled_area_percent)

\* C25: for every rectangle of non-zero area that _detect_digit samples in a
\* glyph, the colon check and the segment check give the same verdict: lit
\* if and only if the filled-pixel ratio of the rectangle exceeds
\* segment_filled_area_percent.
C25_SameVerdict ==
    \A a \in DOMAIN attempts :
       \A rect \in Regions(attempts[a].image) :
          LET image == attempts[a].image
              lit   == Exceeds(RegionRatio(image, rect), segment_filled_area_percent)
          IN  RegionRatio(image, rect).den > 0 =>
                 /\ ColonVerdict(image, rect) = lit
                 /\ SegmentLit(image, rect) = lit

(***************************************************************************)
(* Properties of the glyph list of read_digits                             *)
(***************************************************************************)
\* the maximum height among the contours that were retained
TallestRetained ==
    CHOOSE t \in {contours[n].h : n \in Retained} :
        \A n \in Retained : contours[n].h <= t

\* C26: with tallest the maximum height among the retained glyphs, every
\* glyph of height <= 60% of tallest gets the top edge
\* max(bottom - tallest, 0) and every other glyph keeps its top edge; the
\* bottom, left and right edges of every glyph stay as the bounding
\* rectangle gave them; and the glyphs stay in left-to-right order.
C26_HeightNormalization ==
    /\ \A k \in DOMAIN digit_contours :
          LET dc == digit_contours[k]
              c  == contours[dc.src]
          IN  /\ dc.p2 = <<c.x + c.w, c.y + c.h>>
              /\ dc.p1[1] = c.x
              /\ dc.p1[2] = IF 100 * c.h <= 60 * TallestRetained
                            THEN Max(c.y + c.h - TallestRetained, 0)
                            ELSE c.y
    /\ \A j, k \in DOMAIN digit_contours :
          j < k => digit_contours[j].p1[1] <= digit_contours[k].p1[1]

\* C26 witness: a row of three glyphs: one at exactly 60% of the tallest,
\* moved up to a top edge above 0; a shorter one whose top edge was clamped
\* at 0; and the tallest, unchanged
C26_Witness ==
    /\ Len(digit_contours) = 3
    /\ \E j, k, l \in DOMAIN digit_contours :
          /\ 100 * contours[digit_contours[j].src].h = 60 * TallestRetained
          /\ digit_contours[j].p1[2] > 0
          /\ digit_contours[j].p1[2] < contours[digit_contours[j].src].y
          /\ contours[digit_contours[k].src].y + contours[digit_contours[k].src].h
                < TallestRetained
          /\ digit_contours[k].p1[2] = 0
          /\ contours[digit_contours[l].src].h = TallestRetained
          /\ digit_contours[l].p1[2] = contours[digit_contours[l].src].y

\* C27: in every _detect_digit call that reaches the sampling of segments,
\* the region of the bottom segment spans the rows from height - 1 - ss to
\* height - 1, ss = int(width / 3), whatever the colon check computed
\* before.
C27_BottomSegmentAtFarEdge ==
    \A a \in DOMAIN attempts :
       LET image == attempts[a].image
       IN  ReachedSampling(image) =>
              /\ SegmentRects(image)[6].y1 = image.height - 1
              /\ SegmentRects(image)[6].y0 = image.height - 1 - (image.width \div 3)

\* C28: read_digits never returns an empty string: a returned string has
\* one character per retained glyph and 1 to 4 characters, and when the
\* binarized LED crop has no glyph contour the result is None.
C28_NeverEmptyString ==
    /\ result.ret = "str" =>
          /\ Len(result.digits) = Len(digit_contours)
          /\ Len(result.digits) \in 1..MaxDigits
    /\ (pc = "done" /\ led_contours >= 1 /\ contours = <<>>) =>
          result = ReturnNone

\* every corner of the rectangle is inside the image, edges included
InsideImage(image, rect) ==
    /\ 0 <= rect.x0 /\ rect.x0 <= image.width
    /\ 0 <= rect.x1 /\ rect.x1 <= image.width
    /\ 0 <= rect.y0 /\ rect.y0 <= image.height
    /\ 0 <= rect.y1 /\ rect.y1 <= image.height

\* C29: in every _detect_digit call on a glyph at least 1 wide and 1 tall
\* that reaches the sampling of segments with seven rectangles of non-zero
\* area, the seven rectangles and the five colon bands have all their
\* corners inside the glyph image: 0 <= x <= width and 0 <= y <= height.
C29_RegionsInsideGlyph ==
    \A a \in DOMAIN attempts :
       LET image == attempts[a].image
       IN  (/\ image.width >= 1
            /\ image.height >= 1
            /\ ReachedSampling(image)
            /\ \A k \in 1..7 : SegmentArea(SegmentRects(image)[k]) # 0) =>
              /\ \A k \in 1..7 : InsideImage(image, SegmentRects(image)[k])
              /\ \A k \in 0..4 : InsideImage(image, ColonBand(image, k))

\* C30: a callback that unsubscribes itself from the bus while it is being
\* invoked causes neither an error nor a deadlock: on SimpleMessageBus the
\* publish raises nothing and has invoked every callback that was
\* subscribed to the channel, and on RedisThreadedMessageBus the worker
\* thread is never left waiting for the lock it holds itself.
C30_CallbackMayUnsubscribe ==
    /\ bus_op.op = "publish" =>
          /\ ~bus_op.raised
          /\ \A callback \in bus_op.subscribed :
                \E n \in DOMAIN Delivered : Delivered[n].callback = callback
    /\ ~(worker.pc = "blocked" /\ callbacks_lock = "thread")

====
